---- MODULE Spec2Model ----
(***************************************************************************)
(* Model of the pygame scene editor (src/src/core.py, src/src/editor.py,   *)
(* src/src/ui.py): the scene and its selection, the editor camera, the     *)
(* ellipse hit test, the scene view's pointer state machine and the frame  *)
(* loop that drains input events and then updates the panels.              *)
(*                                                                         *)
(* Python floats are modelled as exact rationals <<n, d>> in lowest terms  *)
(* with d > 0; a Vector2 is a record [x, y] of rationals.  GameObjects     *)
(* live in a heap indexed by object id, so that a reference to an object   *)
(* that has left scene.game_objects is still a reference to that object.   *)
(*                                                                         *)
(* The console and the code button write neither the scene, the camera,    *)
(* the scene view nor the inspector; their handlers are not part of        *)
(* handle_event and PygameEditor_update here.                              *)
(*                                                                         *)
(* The specifications share the definitions: SpecSelection, SpecView,      *)
(* SpecPan, SpecPlay, SpecOverlay, SpecInspector, SpecText, SpecJunk,      *)
(* SpecCorrection, SpecEditing, SpecStale and SpecReselect run the frame   *)
(* loop under different sets of host input;                                *)
(* SpecCamera, SpecHit, SpecLabel and SpecBinding call EditorCamera,       *)
(* Scene.get_object_at_position, the DragLabel arithmetic and the property *)
(* binding of the inspector directly.  SpecRefs runs the frame loop with   *)
(* the Vector2 instances followed by identity next to their values.        *)
(***************************************************************************)
EXTENDS Integers, Sequences, FiniteSets, TLC

VARIABLES
    objs,          \* heap of GameObject: id -> [position, scale, selected, visible]
    scene,         \* Scene: [game_objects, selected_object]
    camera,        \* EditorCamera: [position, zoom]
    view,          \* SceneView interaction fields
    editor,        \* PygameEditor: [is_playing, object_counter]
    buttons,       \* menu-bar Button widgets: name -> [hovered, pressed]
    items,         \* HierarchyPanel.items: the game_object of each HierarchyItem
    inspector,     \* InspectorPanel: [current_object, input_fields, drag_labels]
    mouse,         \* host input state: [pos, pressed]
    frame,         \* position in the frame loop: [pc, moved]
    crashed,       \* an exception has left the main loop
    budget,        \* number of operations counted against the bound on edits
    result,        \* observation of the last call: [op, args, value]
    vectors        \* the Vector2 instances by identity: [at, cell]

vars == <<objs, scene, camera, view, editor, buttons, items, inspector,
          mouse, frame, crashed, budget, result, vectors>>

(***************************************************************************)
(* Bounds.                                                                 *)
(***************************************************************************)
MaxAdded == 1
MaxEdits == 1
MaxCamSteps == 2
MaxHitObjects == 2
MaxTyped == 1
MaxTracked == 2

None == 0

(***************************************************************************)
(* Exact rational arithmetic standing for Python float arithmetic.         *)
(***************************************************************************)
Abs(n) == IF n < 0 THEN -n ELSE n

RECURSIVE GCD(_, _)
GCD(a, b) == IF b = 0 THEN a ELSE GCD(b, a % b)

Q(n, d) ==
    LET g == GCD(Abs(n), Abs(d))
        s == IF d < 0 THEN -1 ELSE 1
    IN  <<(s * n) \div g, (s * d) \div g>>

I(n) == <<n, 1>>

\* sums, products and comparisons reduce by common factors first, which keeps
\* the intermediate integers small
RAdd(a, b) ==
    LET g == GCD(a[2], b[2])
    IN  Q(a[1] * (b[2] \div g) + b[1] * (a[2] \div g), (a[2] \div g) * b[2])

RNeg(a) == <<-a[1], a[2]>>

RSub(a, b) == RAdd(a, RNeg(b))

RMul(a, b) ==
    LET g1 == GCD(Abs(a[1]), b[2])
        g2 == GCD(Abs(b[1]), a[2])
    IN  Q((a[1] \div g1) * (b[1] \div g2), (a[2] \div g2) * (b[2] \div g1))

\* b is not zero
RDiv(a, b) == RMul(a, IF b[1] < 0 THEN <<-b[2], -b[1]>> ELSE <<b[2], b[1]>>)

RLe(a, b) ==
    LET g == GCD(a[2], b[2])
    IN  a[1] * (b[2] \div g) <= b[1] * (a[2] \div g)

RLt(a, b) == ~RLe(b, a)

RMax(a, b) == IF RLt(a, b) THEN b ELSE a
RMin(a, b) == IF RLt(b, a) THEN b ELSE a
RAbs(a) == <<Abs(a[1]), a[2]>>

Vector2(x, y) == [x |-> x, y |-> y]
V(x, y) == Vector2(I(x), I(y))

(***************************************************************************)
(* EditorCamera (src/src/editor.py).                                       *)
(***************************************************************************)
min_zoom == Q(1, 10)
max_zoom == I(10)

\* SceneView rect as created by PygameEditor.create_panels
view_rect == [x |-> 250, y |-> 40, w |-> 650, h |-> 610]

viewport_center == Vector2(Q(view_rect.w, 2), Q(view_rect.h, 2))

EditorCamera_init == [position |-> V(0, 0), zoom |-> I(1)]

world_to_screen(cam, world_pos) ==
    LET relative_x == RSub(world_pos.x, cam.position.x)
        relative_y == RSub(world_pos.y, cam.position.y)
    IN  Vector2(RAdd(RMul(relative_x, cam.zoom), viewport_center.x),
                RAdd(RMul(relative_y, cam.zoom), viewport_center.y))

\* mutant: the offset from the centre is multiplied by the zoom
screen_to_world_scaled(cam, screen_pos) ==
    LET relative_x == RMul(RSub(screen_pos.x, viewport_center.x), cam.zoom)
        relative_y == RMul(RSub(screen_pos.y, viewport_center.y), cam.zoom)
    IN  Vector2(RAdd(relative_x, cam.position.x),
                RAdd(relative_y, cam.position.y))

screen_to_world(cam, screen_pos) ==
    LET relative_x == RDiv(RSub(screen_pos.x, viewport_center.x), cam.zoom)
        relative_y == RDiv(RSub(screen_pos.y, viewport_center.y), cam.zoom)
    IN  Vector2(RAdd(relative_x, cam.position.x),
                RAdd(relative_y, cam.position.y))

\* mutant: the screen delta is not divided by the zoom
pan_unscaled(cam, delta_x, delta_y) ==
    [cam EXCEPT !.position =
        Vector2(RSub(cam.position.x, delta_x), RSub(cam.position.y, delta_y))]

pan(cam, delta_x, delta_y) ==
    LET world_delta_x == RDiv(delta_x, cam.zoom)
        world_delta_y == RDiv(delta_y, cam.zoom)
    IN  [cam EXCEPT !.position =
            Vector2(RSub(cam.position.x, world_delta_x),
                    RSub(cam.position.y, world_delta_y))]

\* mutant: the zoom is not clamped
clamp_zoom_unbounded(new_zoom) == new_zoom

clamp_zoom(new_zoom) == RMax(min_zoom, RMin(max_zoom, new_zoom))

\* mutant: the correction of the position has the opposite sign
zoom_at_point_added(cam, screen_point, zoom_factor) ==
    LET world_point_before == screen_to_world(cam, screen_point)
        new_zoom == RMul(cam.zoom, zoom_factor)
        zoomed == [cam EXCEPT !.zoom = clamp_zoom(new_zoom)]
        world_point_after == screen_to_world(zoomed, screen_point)
    IN  [zoomed EXCEPT !.position =
            Vector2(RAdd(cam.position.x,
                         RSub(world_point_after.x, world_point_before.x)),
                    RAdd(cam.position.y,
                         RSub(world_point_after.y, world_point_before.y)))]

\* mutant: the correction of the position uses the zoom before the clamp
zoom_at_point_overshooting(cam, screen_point, zoom_factor) ==
    LET world_point_before == screen_to_world(cam, screen_point)
        new_zoom == RMul(cam.zoom, zoom_factor)
        zoomed == [cam EXCEPT !.zoom = clamp_zoom(new_zoom)]
        world_point_after ==
            screen_to_world([cam EXCEPT !.zoom = new_zoom], screen_point)
    IN  [zoomed EXCEPT !.position =
            Vector2(RSub(cam.position.x,
                         RSub(world_point_after.x, world_point_before.x)),
                    RSub(cam.position.y,
                         RSub(world_point_after.y, world_point_before.y)))]

zoom_at_point(cam, screen_point, zoom_factor) ==
    LET world_point_before == screen_to_world(cam, screen_point)
        new_zoom == RMul(cam.zoom, zoom_factor)
        zoomed == [cam EXCEPT !.zoom = clamp_zoom(new_zoom)]
        world_point_after == screen_to_world(zoomed, screen_point)
    IN  [zoomed EXCEPT !.position =
            Vector2(RSub(cam.position.x,
                         RSub(world_point_after.x, world_point_before.x)),
                    RSub(cam.position.y,
                         RSub(world_point_after.y, world_point_before.y)))]

reset_view(cam) == [cam EXCEPT !.position = V(0, 0), !.zoom = I(1)]

\* a reset of the zoom that also recentres the camera
reset_zoom_recentring(cam) == [cam EXCEPT !.position = V(0, 0), !.zoom = I(1)]

reset_zoom(cam) == [cam EXCEPT !.zoom = I(1)]

(***************************************************************************)
(* GameObject and Scene (src/src/core.py).                                 *)
(***************************************************************************)
SampleObjects == 3

ObjIds == 1 .. (SampleObjects + MaxAdded)

GameObject_init ==
    [position |-> V(0, 0), rotation |-> I(0), scale |-> V(1, 1),
     selected |-> FALSE, visible |-> TRUE]

Scene_init == [game_objects |-> << >>, selected_object |-> None]

add_object(sc, game_object) ==
    [sc EXCEPT !.game_objects = Append(@, game_object)]

\* mutant: the previous object is not deselected
select_object_keeping(s, game_object) ==
    [s EXCEPT !.objs = IF game_object # None
                       THEN [s.objs EXCEPT ![game_object].selected = TRUE]
                       ELSE s.objs,
              !.scene.selected_object = game_object]

\* s has at least the fields objs and scene
select_object(s, game_object) ==
    LET prev == s.scene.selected_object
        deselected == IF prev # None
                      THEN [s.objs EXCEPT ![prev].selected = FALSE]
                      ELSE s.objs
        selected == IF game_object # None
                    THEN [deselected EXCEPT ![game_object].selected = TRUE]
                    ELSE deselected
    IN  [s EXCEPT !.objs = selected, !.scene.selected_object = game_object]

base_radius == 32

scale_floor == Q(1, 100)

\* mutant: the diameter is not halved
hit_width_diameter(obj) ==
    LET scale_x == RMax(scale_floor, RAbs(obj.scale.x))
    IN  RMul(I(base_radius), scale_x)

hit_width(obj) ==
    LET scale_x == RMax(scale_floor, RAbs(obj.scale.x))
    IN  RDiv(RMul(I(base_radius), scale_x), I(2))

\* mutant: the scale is used as it is
hit_height_unclamped(obj) == RDiv(RMul(I(base_radius), obj.scale.y), I(2))

hit_height(obj) ==
    LET scale_y == RMax(scale_floor, RAbs(obj.scale.y))
    IN  RDiv(RMul(I(base_radius), scale_y), I(2))

inside_ellipse(obj, x, y) ==
    LET dx == RDiv(RSub(x, obj.position.x), hit_width(obj))
        dy == RDiv(RSub(y, obj.position.y), hit_height(obj))
    \* dx*dx + dy*dy <= 1.0; the first two conjuncts follow from the third
    \* and keep the integers of the squares small
    IN  /\ RLe(RAbs(dx), I(1))
        /\ RLe(RAbs(dy), I(1))
        /\ RLe(RAdd(RMul(dx, dx), RMul(dy, dy)), I(1))

\* mutant: visibility is not tested
is_hit_any(obj, x, y) == inside_ellipse(obj, x, y)

is_hit(obj, x, y) == obj.visible /\ inside_ellipse(obj, x, y)

\* the loop over reversed(self.game_objects): i runs from Len down to 1
RECURSIVE hit_scan(_, _, _, _, _)
hit_scan(heap, game_objects, i, x, y) ==
    IF i = 0 THEN None
    ELSE IF is_hit(heap[game_objects[i]], x, y) THEN game_objects[i]
    ELSE hit_scan(heap, game_objects, i - 1, x, y)

\* mutant: the list is scanned in insertion order
RECURSIVE hit_scan_forward(_, _, _, _, _)
hit_scan_forward(heap, game_objects, i, x, y) ==
    IF i > Len(game_objects) THEN None
    ELSE IF is_hit(heap[game_objects[i]], x, y) THEN game_objects[i]
    ELSE hit_scan_forward(heap, game_objects, i + 1, x, y)

get_object_at_position_forward(heap, sc, x, y) ==
    hit_scan_forward(heap, sc.game_objects, 1, x, y)

get_object_at_position(heap, sc, x, y) ==
    hit_scan(heap, sc.game_objects, Len(sc.game_objects), x, y)

(***************************************************************************)
(* Widgets and their geometry (src/src/ui.py, PygameEditor.create_panels). *)
(***************************************************************************)
collidepoint(r, p) ==
    /\ r.x <= p[1] /\ p[1] < r.x + r.w
    /\ r.y <= p[2] /\ p[2] < r.y + r.h

add_button_rect == [x |-> 150, y |-> 5, w |-> 30, h |-> 30]
play_button_rect == [x |-> 190, y |-> 5, w |-> 60, h |-> 30]
hierarchy_rect == [x |-> 0, y |-> 40, w |-> 250, h |-> 610]

\* the rect HierarchyPanel.update_items gives to the item at index i (from 1)
item_rect(i) ==
    [x |-> hierarchy_rect.x + 5, y |-> hierarchy_rect.y + 35 + (i - 1) * 25,
     w |-> hierarchy_rect.w - 10, h |-> 25]

\* the overlay texts; the rendered size is that of the shortest text in
\* pygame's default font at size 20
zoom_text_rect == [x |-> 10, y |-> 10, w |-> 70, h |-> 14]
camera_text_rect == [x |-> 10, y |-> 30, w |-> 126, h |-> 14]

is_click_on_zoom_text(local) == collidepoint(zoom_text_rect, local)
is_click_on_camera_text(local) == collidepoint(camera_text_rect, local)

Button_init == [hovered |-> FALSE, pressed |-> FALSE]

\* the Button after the event, without its action
Button_handle_event(b, e) ==
    IF e.type = "MOUSEBUTTONDOWN" /\ b.hovered THEN [b EXCEPT !.pressed = TRUE]
    ELSE IF e.type = "MOUSEBUTTONUP" /\ b.pressed THEN [b EXCEPT !.pressed = FALSE]
    ELSE b

\* whether the event makes the Button call its action
Button_fires(b, e) ==
    /\ ~(e.type = "MOUSEBUTTONDOWN" /\ b.hovered)
    /\ e.type = "MOUSEBUTTONUP" /\ b.pressed

(***************************************************************************)
(* PygameEditor commands (src/src/editor.py).  A program state s is the    *)
(* record [objs, scene, camera, view, editor, buttons, items, crashed].    *)
(***************************************************************************)
play_speed == 5

SceneView_init ==
    [is_panning |-> FALSE, last_mouse_pos |-> V(0, 0), hovered |-> FALSE,
     is_dragging_object |-> FALSE, dragged_object |-> None,
     drag_start_pos |-> V(0, 0), is_playing |-> FALSE]

PygameEditor_add_object(s) ==
    LET new_obj == SampleObjects + s.editor.object_counter
    IN  [s EXCEPT !.objs[new_obj] = [GameObject_init EXCEPT !.position = V(100, 100)],
                  !.scene = add_object(@, new_obj),
                  !.editor.object_counter = @ + 1]

InList(seq, x) == \E i \in 1 .. Len(seq) : seq[i] = x

\* list.remove: drops the first occurrence
RECURSIVE list_remove(_, _)
list_remove(seq, x) ==
    IF seq = << >> THEN << >>
    ELSE IF Head(seq) = x THEN Tail(seq)
    ELSE <<Head(seq)>> \o list_remove(Tail(seq), x)

\* list.remove raises ValueError when the object is not in the list
delete_object(s) ==
    IF s.scene.selected_object # None
    THEN IF InList(s.scene.game_objects, s.scene.selected_object)
         THEN select_object(
                [s EXCEPT !.scene.game_objects =
                              list_remove(@, s.scene.selected_object)],
                None)
         ELSE [s EXCEPT !.crashed = TRUE]
    ELSE s

enter_play_mode(s) ==
    IF s.scene.game_objects # << >>
    THEN select_object(s, s.scene.game_objects[1])
    ELSE s

exit_play_mode(s) == select_object(s, None)

toggle_play_mode(s) ==
    LET t == [s EXCEPT !.editor.is_playing = ~@]
    IN  IF t.editor.is_playing THEN enter_play_mode(t) ELSE exit_play_mode(t)

\* the QUIT / KEYDOWN branch at the head of the loop body of handle_events
key_events(s, e) ==
    IF e.type = "QUIT" THEN [s EXCEPT !.editor.running = FALSE]
    ELSE IF e.type = "KEYDOWN" THEN
        IF e.key = "ESCAPE" THEN [s EXCEPT !.editor.running = FALSE]
        ELSE IF e.key = "DELETE" THEN delete_object(s)
        ELSE IF e.key = "SPACE" /\ ~s.editor.is_playing THEN toggle_play_mode(s)
        ELSE s
    ELSE s

add_button_handle_event(s, e) ==
    LET t == [s EXCEPT !.buttons.add = Button_handle_event(@, e)]
    IN  IF Button_fires(s.buttons.add, e) THEN PygameEditor_add_object(t) ELSE t

play_button_handle_event(s, e) ==
    LET t == [s EXCEPT !.buttons.play = Button_handle_event(@, e)]
    IN  IF Button_fires(s.buttons.play, e) THEN toggle_play_mode(t) ELSE t

\* HierarchyItem.handle_event for the item at index i
HierarchyItem_handle_event(i, e, mouse_pos) ==
    e.type = "MOUSEBUTTONDOWN" /\ collidepoint(item_rect(i), mouse_pos)

\* the loop over self.items: the first item that takes the event is selected
RECURSIVE hierarchy_scan(_, _, _, _)
hierarchy_scan(s, i, e, mouse_pos) ==
    IF i > Len(s.items) THEN s
    ELSE IF HierarchyItem_handle_event(i, e, mouse_pos)
         THEN select_object(s, s.items[i])
         ELSE hierarchy_scan(s, i + 1, e, mouse_pos)

HierarchyPanel_handle_event(s, e, mouse_pos) == hierarchy_scan(s, 1, e, mouse_pos)

update_items(s) == [s EXCEPT !.items = s.scene.game_objects]

(***************************************************************************)
(* SceneView (src/src/editor.py).                                          *)
(***************************************************************************)
local_of(mouse_pos) == <<mouse_pos[1] - view_rect.x, mouse_pos[2] - view_rect.y>>

\* mutant: a click on empty space keeps the selection
SceneView_left_down_keeping(s, local) ==
    LET local_mouse_pos == V(local[1], local[2])
        world_pos == screen_to_world(s.camera, local_mouse_pos)
        clicked_object == get_object_at_position(s.objs, s.scene,
                                                 world_pos.x, world_pos.y)
        t == IF clicked_object # None THEN select_object(s, clicked_object) ELSE s
    IN  IF is_click_on_zoom_text(local)
        THEN [s EXCEPT !.camera = reset_zoom(@)]
        ELSE IF is_click_on_camera_text(local)
        THEN [s EXCEPT !.camera = reset_view(@)]
        ELSE IF clicked_object # None /\ ~s.view.is_playing
        THEN [t EXCEPT !.view.is_dragging_object = TRUE,
                       !.view.dragged_object = clicked_object,
                       !.view.drag_start_pos = world_pos]
        ELSE t

SceneView_left_down(s, local) ==
    LET local_mouse_pos == V(local[1], local[2])
        world_pos == screen_to_world(s.camera, local_mouse_pos)
        clicked_object == get_object_at_position(s.objs, s.scene,
                                                 world_pos.x, world_pos.y)
        t == select_object(s, clicked_object)
    IN  IF is_click_on_zoom_text(local)
        THEN [s EXCEPT !.camera = reset_zoom(@)]
        ELSE IF is_click_on_camera_text(local)
        THEN [s EXCEPT !.camera = reset_view(@)]
        ELSE IF clicked_object # None /\ ~s.view.is_playing
        THEN [t EXCEPT !.view.is_dragging_object = TRUE,
                       !.view.dragged_object = clicked_object,
                       !.view.drag_start_pos = world_pos]
        ELSE t

\* mutant: a pan measures the delta from where the middle button went down
SceneView_motion_from_press(s, local) ==
    LET local_mouse_pos == V(local[1], local[2])
        delta_x == RSub(local_mouse_pos.x, s.view.last_mouse_pos.x)
        delta_y == RSub(local_mouse_pos.y, s.view.last_mouse_pos.y)
    IN  IF s.view.is_panning
        THEN [s EXCEPT !.camera = pan(@, delta_x, delta_y)]
        ELSE IF /\ s.view.is_dragging_object
                /\ s.view.dragged_object # None
                /\ ~s.view.is_playing
        THEN [s EXCEPT !.objs[s.view.dragged_object].position =
                           screen_to_world(s.camera, local_mouse_pos)]
        ELSE s

SceneView_motion(s, local) ==
    LET local_mouse_pos == V(local[1], local[2])
        delta_x == RSub(local_mouse_pos.x, s.view.last_mouse_pos.x)
        delta_y == RSub(local_mouse_pos.y, s.view.last_mouse_pos.y)
    IN  IF s.view.is_panning
        THEN [s EXCEPT !.camera = pan(@, delta_x, delta_y),
                       !.view.last_mouse_pos = local_mouse_pos]
        ELSE IF /\ s.view.is_dragging_object
                /\ s.view.dragged_object # None
                /\ ~s.view.is_playing
        THEN [s EXCEPT !.objs[s.view.dragged_object].position =
                           screen_to_world(s.camera, local_mouse_pos)]
        ELSE s

\* mutant: the step grows with the size of the tick
wheel_factor_proportional(y) == IF y > 0 THEN Q(10 + y, 10) ELSE Q(9, 10)

wheel_factor(y) == IF y > 0 THEN Q(11, 10) ELSE Q(9, 10)

SceneView_handle_event(s, e, mouse_pos) ==
    LET local == local_of(mouse_pos)
        local_mouse_pos == V(local[1], local[2])
    IN  IF ~s.view.hovered THEN s
        ELSE IF e.type = "MOUSEBUTTONDOWN" THEN
            IF e.button = 1 THEN SceneView_left_down(s, local)
            ELSE IF e.button = 2
            THEN [s EXCEPT !.view.is_panning = TRUE,
                           !.view.last_mouse_pos = local_mouse_pos]
            ELSE s
        ELSE IF e.type = "MOUSEBUTTONUP" THEN
            IF e.button = 1 THEN
                IF s.view.is_dragging_object
                THEN [s EXCEPT !.view.is_dragging_object = FALSE,
                               !.view.dragged_object = None]
                ELSE s
            ELSE IF e.button = 2 THEN [s EXCEPT !.view.is_panning = FALSE]
            ELSE s
        ELSE IF e.type = "MOUSEMOTION" THEN SceneView_motion(s, local)
        ELSE IF e.type = "MOUSEWHEEL"
        THEN [s EXCEPT !.camera = zoom_at_point(@, local_mouse_pos, wheel_factor(e.y))]
        ELSE s

\* mutant: the buttons are not polled
SceneView_update_unpolled(s, mouse_pos, pressed) ==
    [s EXCEPT !.view.hovered = collidepoint(view_rect, mouse_pos)]

\* mutant: the polling check ends the drag and keeps the object
SceneView_update_holding(s, mouse_pos, pressed) ==
    LET h == [s EXCEPT !.view.hovered = collidepoint(view_rect, mouse_pos)]
        p == IF h.view.is_panning /\ ~pressed[2]
             THEN [h EXCEPT !.view.is_panning = FALSE]
             ELSE h
    IN  IF p.view.is_dragging_object /\ ~pressed[1]
        THEN [p EXCEPT !.view.is_dragging_object = FALSE]
        ELSE p

\* pressed is pygame.mouse.get_pressed(): pressed[1] left, pressed[2] middle
SceneView_update(s, mouse_pos, pressed) ==
    LET h == [s EXCEPT !.view.hovered = collidepoint(view_rect, mouse_pos)]
        p == IF h.view.is_panning /\ ~pressed[2]
             THEN [h EXCEPT !.view.is_panning = FALSE]
             ELSE h
    IN  IF p.view.is_dragging_object /\ ~pressed[1]
        THEN [p EXCEPT !.view.is_dragging_object = FALSE,
                       !.view.dragged_object = None]
        ELSE p

\* keys is the set of arrow keys pygame.key.get_pressed() reports as held
handle_play_input(s, keys) ==
    LET o == s.scene.selected_object
        dx == (IF "RIGHT" \in keys THEN play_speed ELSE 0)
              - (IF "LEFT" \in keys THEN play_speed ELSE 0)
        dy == (IF "DOWN" \in keys THEN play_speed ELSE 0)
              - (IF "UP" \in keys THEN play_speed ELSE 0)
    IN  IF o # None
        THEN [s EXCEPT !.objs[o].position =
                           Vector2(RAdd(@.x, I(dx)), RAdd(@.y, I(dy)))]
        ELSE s

(***************************************************************************)
(* Texts of the inspector (src/src/ui.py).  A str is a sequence of         *)
(* one-character strings.  The texts of the model are over the digits,     *)
(* ".", "-", "+", the blank and letters that occur in no number.           *)
(***************************************************************************)
DigitChars == <<"0", "1", "2", "3", "4", "5", "6", "7", "8", "9">>

RECURSIVE IntDigits(_)
IntDigits(k) ==
    IF k < 10 THEN <<DigitChars[k + 1]>>
    ELSE IntDigits(k \div 10) \o <<DigitChars[(k % 10) + 1]>>

\* f"{v:.2f}": the nearest hundredth, a sign for every negative v.  A tie is
\* rounded to even, as for a float that holds v exactly
format_2f(v) ==
    LET a == Abs(v[1]) * 100
        q == a \div v[2]
        r == a % v[2]
        h == IF 2 * r > v[2] THEN q + 1
             ELSE IF 2 * r < v[2] THEN q
             ELSE IF q % 2 = 0 THEN q ELSE q + 1
    IN  (IF v[1] < 0 THEN <<"-">> ELSE << >>)
        \o IntDigits(h \div 100)
        \o <<".", DigitChars[((h % 100) \div 10) + 1], DigitChars[(h % 10) + 1]>>

DigitOf(c) == CHOOSE k \in 0 .. 9 : DigitChars[k + 1] = c

IsDigit(c) == \E k \in 1 .. 10 : DigitChars[k] = c

\* the integer written by the digits of text, other characters skipped
RECURSIVE DigitsValue(_, _)
DigitsValue(text, acc) ==
    IF text = << >> THEN acc
    ELSE IF IsDigit(Head(text))
         THEN DigitsValue(Tail(text), acc * 10 + DigitOf(Head(text)))
         ELSE DigitsValue(Tail(text), acc)

RECURSIVE Pow10(_)
Pow10(k) == IF k = 0 THEN 1 ELSE 10 * Pow10(k - 1)

\* text.strip() for the blank
RECURSIVE lstrip(_)
lstrip(text) ==
    IF text # << >> /\ Head(text) = " " THEN lstrip(Tail(text)) ELSE text

RECURSIVE rstrip(_)
rstrip(text) ==
    IF text # << >> /\ text[Len(text)] = " "
    THEN rstrip(SubSeq(text, 1, Len(text) - 1))
    ELSE text

\* float(text): [ok |-> whether text is a number, value |-> the number];
\* blanks around the number are skipped
parse_float(whole) ==
    LET text == rstrip(lstrip(whole))
        signed == text # << >> /\ Head(text) \in {"-", "+"}
        body == IF signed THEN Tail(text) ELSE text
        dots == {i \in 1 .. Len(body) : body[i] = "."}
        digits == {i \in 1 .. Len(body) : IsDigit(body[i])}
        ok == /\ digits # {}
              /\ Cardinality(dots) <= 1
              /\ Cardinality(dots) + Cardinality(digits) = Len(body)
        decimals == IF dots = {} THEN 0
                    ELSE Len(body) - (CHOOSE i \in dots : TRUE)
        magnitude == Q(DigitsValue(body, 0), Pow10(decimals))
    IN  [ok |-> ok,
         value |-> IF ~ok THEN I(0)
                   ELSE IF signed /\ Head(text) = "-" THEN RNeg(magnitude)
                   ELSE magnitude]

(***************************************************************************)
(* Property paths of the inspector controls (src/src/ui.py).               *)
(***************************************************************************)
property_paths ==
    <<"transform.position.x", "transform.position.y", "transform.rotation",
      "transform.scale.x", "transform.scale.y">>

\* the getattr chain along the path
get_path(obj, path) ==
    CASE path = "transform.position.x" -> obj.position.x
      [] path = "transform.position.y" -> obj.position.y
      [] path = "transform.rotation" -> obj.rotation
      [] path = "transform.scale.x" -> obj.scale.x
      [] path = "transform.scale.y" -> obj.scale.y

\* the getattr chain and the final setattr
set_path(obj, path, value) ==
    CASE path = "transform.position.x" -> [obj EXCEPT !.position.x = value]
      [] path = "transform.position.y" -> [obj EXCEPT !.position.y = value]
      [] path = "transform.rotation" -> [obj EXCEPT !.rotation = value]
      [] path = "transform.scale.x" -> [obj EXCEPT !.scale.x = value]
      [] path = "transform.scale.y" -> [obj EXCEPT !.scale.y = value]

\* property_path.split('.'), for the paths of the controls and for paths
\* that name no numeric field of a GameObject
path_parts(path) ==
    CASE path = "transform.position.x" -> <<"transform", "position", "x">>
      [] path = "transform.position.y" -> <<"transform", "position", "y">>
      [] path = "transform.rotation" -> <<"transform", "rotation">>
      [] path = "transform.scale.x" -> <<"transform", "scale", "x">>
      [] path = "transform.scale.y" -> <<"transform", "scale", "y">>
      [] path = "transform.velocity.x" -> <<"transform", "velocity", "x">>
      [] path = "transform.rotation.x" -> <<"transform", "rotation", "x">>
      [] path = "transform.position.z" -> <<"transform", "position", "z">>
      [] path = "transform.position" -> <<"transform", "position">>
      [] path = "body.position.x" -> <<"body", "position", "x">>
      [] path = "visible" -> <<"visible">>
      [] path = "name" -> <<"name">>

\* getattr(target, part) on the values a path can reach from a GameObject;
\* AttributeError is the target of a lookup that raises
getattr(target, part) ==
    CASE target.kind = "GameObject" /\ part = "transform" ->
            [kind |-> "Transform", obj |-> target.obj]
      [] target.kind = "GameObject" /\ part = "name" -> [kind |-> "str"]
      [] target.kind = "GameObject" /\ part = "selected" ->
            [kind |-> "bool", v |-> target.obj.selected]
      [] target.kind = "GameObject" /\ part = "visible" ->
            [kind |-> "bool", v |-> target.obj.visible]
      [] target.kind = "Transform" /\ part = "position" ->
            [kind |-> "Vector2", v |-> target.obj.position]
      [] target.kind = "Transform" /\ part = "scale" ->
            [kind |-> "Vector2", v |-> target.obj.scale]
      [] target.kind = "Transform" /\ part = "rotation" ->
            [kind |-> "float", v |-> target.obj.rotation]
      [] target.kind = "Vector2" /\ part = "x" -> [kind |-> "float", v |-> target.v.x]
      [] target.kind = "Vector2" /\ part = "y" -> [kind |-> "float", v |-> target.v.y]
      [] OTHER -> [kind |-> "AttributeError"]

\* for part in parts: target = getattr(target, part)
RECURSIVE getattr_chain(_, _)
getattr_chain(target, parts) ==
    IF parts = << >> \/ target.kind = "AttributeError" THEN target
    ELSE getattr_chain(getattr(target, Head(parts)), Tail(parts))

\* float(target) of the end of a chain: [ok, value]; a bool is 0.0 or 1.0
\* and every other object raises
float_of(target) ==
    CASE target.kind = "float" -> [ok |-> TRUE, value |-> target.v]
      [] target.kind = "bool" ->
            [ok |-> TRUE, value |-> IF target.v THEN I(1) ELSE I(0)]
      [] OTHER -> [ok |-> FALSE, value |-> I(0)]

\* whether setattr(target, ...) at the end of path_parts[:-1] raises: a
\* float, a bool and a str take no attribute
setattr_raises(obj, path) ==
    LET parts == path_parts(path)
        target == getattr_chain([kind |-> "GameObject", obj |-> obj],
                                SubSeq(parts, 1, Len(parts) - 1))
    IN  target.kind \notin {"GameObject", "Transform", "Vector2"}

\* "scale" in property_path.lower()
is_scale_path(path) == path \in {"transform.scale.x", "transform.scale.y"}

inspector_rect == [x |-> 900, y |-> 40, w |-> 300, h |-> 610]

\* the row of the control at index i: position, rotation, scale
control_y(i) ==
    inspector_rect.y + 130 + (IF i <= 2 THEN 0 ELSE IF i = 3 THEN 35 ELSE 70)

\* the rect update_input_fields gives to the TextInput at index i
field_rect(i) ==
    [x |-> inspector_rect.x + (IF i \in {2, 5} THEN 230 ELSE 130),
     y |-> control_y(i), w |-> 60, h |-> 20]

\* the rect update_input_fields gives to the DragLabel at index i
label_rect(i) ==
    [x |-> inspector_rect.x + (IF i \in {2, 5} THEN 205 ELSE 105),
     y |-> control_y(i), w |-> 20, h |-> 20]

label_step(i) == IF i <= 2 THEN I(1) ELSE IF i = 3 THEN I(2) ELSE Q(1, 100)

(***************************************************************************)
(* TextInput, DragLabel and InspectorPanel (src/src/ui.py).  The inspector *)
(* is [current_object, input_fields, drag_labels]; the control at index i  *)
(* of either list is bound to property_paths[i].  The hovered flag of a    *)
(* control is recomputed by handle_event before it is read and is not      *)
(* kept.  A handle_event below gives [s, handled]: the program state after *)
(* the call and the value returned.                                        *)
(***************************************************************************)
TextInput_init(initial_value) ==
    [value |-> initial_value, display_value |-> initial_value,
     is_active |-> FALSE, cursor_pos |-> Len(initial_value),
     selection_start |-> 0, selection_end |-> 0]

activate(f) ==
    [f EXCEPT !.is_active = TRUE, !.selection_start = 0,
              !.selection_end = Len(f.value), !.cursor_pos = Len(f.value)]

deactivate(f) ==
    [f EXCEPT !.is_active = FALSE, !.selection_start = 0, !.selection_end = 0]

DragLabel_init == [is_dragging |-> FALSE, drag_start_x |-> 0, drag_start_value |-> I(0)]

InspectorPanel_init ==
    [current_object |-> None, input_fields |-> << >>, drag_labels |-> << >>]

\* mutant: the fields show the value although nothing is selected
on_value_change_showing(s, property_path, value) ==
    LET fields == s.inspector.input_fields
    IN  [s EXCEPT !.inspector.input_fields =
                    [i \in 1 .. Len(fields) |->
                        IF property_paths[i] = property_path
                        THEN [fields[i] EXCEPT !.display_value = format_2f(value)]
                        ELSE fields[i]]]

\* mutant: the write reaches the object the controls were made for
on_value_change_bound(s, property_path, value) ==
    LET o == s.inspector.current_object
    IN  IF o = None THEN s
        ELSE [s EXCEPT !.objs[o] = set_path(@, property_path, value)]

\* the write reaches the object selected now; the fields bound to the path
\* show the value, the text of an active field excepted
on_value_change(s, property_path, value) ==
    LET o == s.scene.selected_object
        display == format_2f(value)
        fields == s.inspector.input_fields
    IN  IF o = None THEN s
        \* the except branch: the error is printed and nothing is written
        ELSE IF setattr_raises(s.objs[o], property_path) THEN s
        ELSE [s EXCEPT
                !.objs[o] = set_path(@, property_path, value),
                !.inspector.input_fields =
                    [i \in 1 .. Len(fields) |->
                        IF property_paths[i] = property_path
                        THEN [fields[i] EXCEPT
                                !.display_value = display,
                                !.value = IF fields[i].is_active THEN @
                                          ELSE display]
                        ELSE fields[i]]]

\* mutant: the field stays active after the write
confirm_value_staying(s, i) ==
    LET f == s.inspector.input_fields[i]
        numeric_value == parse_float(f.value)
        t == on_value_change(s, property_paths[i], numeric_value.value)
    IN  IF numeric_value.ok
        THEN [t EXCEPT !.inspector.input_fields[i].display_value = f.value]
        ELSE [s EXCEPT !.inspector.input_fields[i] =
                          [@ EXCEPT !.value = f.display_value,
                                    !.cursor_pos = Len(f.display_value)]]

\* mutant: a text that is no number stays in the field
confirm_value_keeping(s, i) ==
    LET f == s.inspector.input_fields[i]
        numeric_value == parse_float(f.value)
        t == on_value_change(s, property_paths[i], numeric_value.value)
    IN  IF numeric_value.ok
        THEN [t EXCEPT !.inspector.input_fields[i] =
                          deactivate([@ EXCEPT !.display_value = f.value])]
        ELSE s

\* mutant: a text that is no number leaves the field inactive
confirm_value_leaving(s, i) ==
    LET f == s.inspector.input_fields[i]
        numeric_value == parse_float(f.value)
        t == on_value_change(s, property_paths[i], numeric_value.value)
    IN  IF numeric_value.ok
        THEN [t EXCEPT !.inspector.input_fields[i] =
                          deactivate([@ EXCEPT !.display_value = f.value])]
        ELSE [s EXCEPT !.inspector.input_fields[i] =
                          deactivate([@ EXCEPT !.value = f.display_value,
                                               !.cursor_pos = Len(f.display_value)])]

\* Enter in the TextInput at index i
confirm_value(s, i) ==
    LET f == s.inspector.input_fields[i]
        numeric_value == parse_float(f.value)
        t == on_value_change(s, property_paths[i], numeric_value.value)
    IN  IF numeric_value.ok
        THEN [t EXCEPT !.inspector.input_fields[i] =
                          deactivate([@ EXCEPT !.display_value = f.value])]
        ELSE [s EXCEPT !.inspector.input_fields[i] =
                          [@ EXCEPT !.value = f.display_value,
                                    !.cursor_pos = Len(f.display_value)]]

\* mutant: the field is left with the typed text
cancel_input_keeping(f) == deactivate(f)

cancel_input(f) ==
    deactivate([f EXCEPT !.value = f.display_value,
                         !.cursor_pos = Len(f.display_value)])

Min(a, b) == IF a < b THEN a ELSE b
Max(a, b) == IF a < b THEN b ELSE a

\* value[:a] + ins + value[b:]; a slice bound past the end is the end
Splice(value, a, ins, b) ==
    SubSeq(value, 1, Min(a, Len(value))) \o ins
    \o SubSeq(value, Min(b, Len(value)) + 1, Len(value))

\* the KEYDOWN branches of TextInput.handle_event that edit the text and the
\* cursor; handled is the value returned
TextInput_key(f, e) ==
    LET start == Min(f.selection_start, f.selection_end)
        end == Max(f.selection_start, f.selection_end)
        selecting == f.selection_start # f.selection_end
        shift == "SHIFT" \in e.mod
        \* the cursor moved to pos, extending or dropping the selection
        moved(pos) ==
            IF shift
            THEN [f EXCEPT !.selection_start = IF selecting THEN @ ELSE f.cursor_pos,
                           !.cursor_pos = pos, !.selection_end = pos]
            ELSE [f EXCEPT !.cursor_pos = pos, !.selection_start = pos,
                           !.selection_end = pos]
        \* the selection replaced by ins, the cursor after it
        replaced(ins) ==
            [f EXCEPT !.value = Splice(f.value, start, ins, end),
                      !.cursor_pos = start + Len(ins),
                      !.selection_start = start + Len(ins),
                      !.selection_end = start + Len(ins)]
    IN  IF e.key = "BACKSPACE" THEN
            [handled |-> TRUE,
             f |-> IF selecting THEN replaced(<< >>)
                   ELSE IF f.cursor_pos > 0
                   THEN [f EXCEPT !.value = Splice(f.value, f.cursor_pos - 1, << >>,
                                                   f.cursor_pos),
                                  !.cursor_pos = @ - 1]
                   ELSE f]
        ELSE IF e.key = "DELETE" THEN
            [handled |-> TRUE,
             f |-> IF selecting THEN replaced(<< >>)
                   ELSE IF f.cursor_pos < Len(f.value)
                   THEN [f EXCEPT !.value = Splice(f.value, f.cursor_pos, << >>,
                                                   f.cursor_pos + 1)]
                   ELSE f]
        ELSE IF e.key = "LEFT" THEN
            [handled |-> TRUE, f |-> moved(Max(0, f.cursor_pos - 1))]
        ELSE IF e.key = "RIGHT" THEN
            [handled |-> TRUE, f |-> moved(Min(Len(f.value), f.cursor_pos + 1))]
        ELSE IF e.key = "HOME" THEN [handled |-> TRUE, f |-> moved(0)]
        ELSE IF e.key = "END" THEN [handled |-> TRUE, f |-> moved(Len(f.value))]
        ELSE IF e.key = "a" /\ "CTRL" \in e.mod THEN
            [handled |-> TRUE,
             f |-> [f EXCEPT !.selection_start = 0, !.selection_end = Len(f.value),
                             !.cursor_pos = Len(f.value)]]
        ELSE IF e.unicode # "" THEN
            [handled |-> TRUE,
             f |-> IF selecting THEN replaced(<<e.unicode>>)
                   ELSE [f EXCEPT !.value = Splice(f.value, f.cursor_pos,
                                                   <<e.unicode>>, f.cursor_pos),
                                  !.cursor_pos = @ + 1]]
        ELSE [handled |-> FALSE, f |-> f]

\* TextInput.handle_event of the field at index i
TextInput_handle_event(s, i, e, mouse_pos) ==
    LET f == s.inspector.input_fields[i]
        hovered == collidepoint(field_rect(i), mouse_pos)
        k == TextInput_key(f, e)
    IN  IF ~hovered /\ e.type = "MOUSEBUTTONDOWN" THEN
            [s |-> IF f.is_active
                   THEN [s EXCEPT !.inspector.input_fields[i] = deactivate(@)]
                   ELSE s,
             handled |-> FALSE]
        ELSE IF e.type = "MOUSEBUTTONDOWN" /\ e.button = 1 /\ hovered THEN
            [s |-> [s EXCEPT !.inspector.input_fields[i] = activate(@)],
             handled |-> TRUE]
        ELSE IF f.is_active /\ e.type = "KEYDOWN" THEN
            IF e.key \in {"RETURN", "KP_ENTER"}
            THEN [s |-> confirm_value(s, i), handled |-> TRUE]
            ELSE IF e.key = "ESCAPE"
            THEN [s |-> [s EXCEPT !.inspector.input_fields[i] = cancel_input(@)],
                  handled |-> TRUE]
            ELSE [s |-> [s EXCEPT !.inspector.input_fields[i] = k.f],
                  handled |-> k.handled]
        ELSE [s |-> s, handled |-> FALSE]

\* mutant: the fallback of the read for every path
get_current_value_fallback(s, property_path) == I(0)

\* the bare except gives 0.0 for a failed lookup and a failed float()
get_current_value(s, property_path) ==
    IF s.scene.selected_object # None
    THEN float_of(getattr_chain(
                      [kind |-> "GameObject",
                       obj |-> s.objs[s.scene.selected_object]],
                      path_parts(property_path))).value
    ELSE I(0)

\* mutant: the scale is not held at the floor
DragLabel_new_value_unclamped(l, i, mouse_x) ==
    LET total_distance == mouse_x - l.drag_start_x
    IN  RAdd(l.drag_start_value, RMul(I(total_distance), label_step(i)))

\* the value a pointer move at mouse_x writes through the label at index i
DragLabel_new_value(l, i, mouse_x) ==
    LET total_distance == mouse_x - l.drag_start_x
        new_value == RAdd(l.drag_start_value,
                          RMul(I(total_distance), label_step(i)))
    IN  IF is_scale_path(property_paths[i])
        THEN RMax(scale_floor, new_value)
        ELSE new_value

\* mutant: each move adds to the value the field holds now
DragLabel_handle_event_incremental(s, i, e, mouse_pos) ==
    LET l == s.inspector.drag_labels[i]
        hovered == collidepoint(label_rect(i), mouse_pos)
        now == [l EXCEPT !.drag_start_value =
                             get_current_value(s, property_paths[i])]
    IN  IF e.type = "MOUSEBUTTONDOWN" /\ e.button = 1 /\ hovered THEN
            [s |-> [s EXCEPT !.inspector.drag_labels[i] =
                        [is_dragging |-> TRUE, drag_start_x |-> mouse_pos[1],
                         drag_start_value |->
                             get_current_value(s, property_paths[i])]],
             handled |-> TRUE]
        ELSE IF e.type = "MOUSEBUTTONUP" /\ e.button = 1 THEN
            IF l.is_dragging
            THEN [s |-> [s EXCEPT !.inspector.drag_labels[i].is_dragging = FALSE],
                  handled |-> TRUE]
            ELSE [s |-> s, handled |-> FALSE]
        ELSE IF e.type = "MOUSEMOTION" /\ l.is_dragging THEN
            [s |-> on_value_change(s, property_paths[i],
                                   DragLabel_new_value(now, i, mouse_pos[1])),
             handled |-> TRUE]
        ELSE [s |-> s, handled |-> FALSE]

\* DragLabel.handle_event of the label at index i
DragLabel_handle_event(s, i, e, mouse_pos) ==
    LET l == s.inspector.drag_labels[i]
        hovered == collidepoint(label_rect(i), mouse_pos)
    IN  IF e.type = "MOUSEBUTTONDOWN" /\ e.button = 1 /\ hovered THEN
            [s |-> [s EXCEPT !.inspector.drag_labels[i] =
                        [is_dragging |-> TRUE, drag_start_x |-> mouse_pos[1],
                         drag_start_value |->
                             get_current_value(s, property_paths[i])]],
             handled |-> TRUE]
        ELSE IF e.type = "MOUSEBUTTONUP" /\ e.button = 1 THEN
            IF l.is_dragging
            THEN [s |-> [s EXCEPT !.inspector.drag_labels[i].is_dragging = FALSE],
                  handled |-> TRUE]
            ELSE [s |-> s, handled |-> FALSE]
        ELSE IF e.type = "MOUSEMOTION" /\ l.is_dragging THEN
            [s |-> on_value_change(s, property_paths[i],
                                   DragLabel_new_value(l, i, mouse_pos[1])),
             handled |-> TRUE]
        ELSE [s |-> s, handled |-> FALSE]

\* the loop over self.drag_labels: stops at the first label that takes the
\* event
RECURSIVE labels_scan(_, _, _, _)
labels_scan(s, i, e, mouse_pos) ==
    IF i > Len(s.inspector.drag_labels) THEN s
    ELSE LET r == DragLabel_handle_event(s, i, e, mouse_pos)
         IN  IF r.handled THEN r.s ELSE labels_scan(r.s, i + 1, e, mouse_pos)

\* the loop over self.input_fields, then the labels unless a field took the
\* event
RECURSIVE fields_scan(_, _, _, _)
fields_scan(s, i, e, mouse_pos) ==
    IF i > Len(s.inspector.input_fields) THEN labels_scan(s, 1, e, mouse_pos)
    ELSE LET r == TextInput_handle_event(s, i, e, mouse_pos)
         IN  IF r.handled THEN r.s ELSE fields_scan(r.s, i + 1, e, mouse_pos)

\* the panel has no child elements of its own
InspectorPanel_handle_event(s, e, mouse_pos) == fields_scan(s, 1, e, mouse_pos)

\* mutant: controls that exist are kept when the selection has changed
update_input_fields_keeping(s) ==
    LET o == s.scene.selected_object
        fields == s.inspector.input_fields
    IN  IF o = None \/ fields = << >>
        THEN [s EXCEPT !.inspector =
                 [current_object |-> o, input_fields |-> << >>,
                  drag_labels |-> << >>]]
        ELSE [s EXCEPT
                !.inspector.current_object = o,
                !.inspector.input_fields =
                    [i \in 1 .. Len(fields) |->
                        IF fields[i].is_active THEN fields[i]
                        ELSE LET t == format_2f(
                                 get_path(s.objs[o], property_paths[i]))
                             IN  [fields[i] EXCEPT !.display_value = t,
                                                   !.value = t]]]

update_input_fields(s) ==
    LET o == s.scene.selected_object
        cleared == IF s.inspector.current_object # o
                   THEN [current_object |-> o, input_fields |-> << >>,
                         drag_labels |-> << >>]
                   ELSE s.inspector
        created == IF o # None /\ cleared.input_fields = << >>
                   THEN [cleared EXCEPT
                           !.input_fields =
                               [i \in 1 .. 5 |->
                                   TextInput_init(format_2f(
                                       get_path(s.objs[o], property_paths[i])))],
                           !.drag_labels = [i \in 1 .. 5 |-> DragLabel_init]]
                   ELSE cleared
        \* the fields that are not being edited show the current values
        fields == created.input_fields
        shown == IF o # None /\ fields # << >>
                 THEN [created EXCEPT
                         !.input_fields =
                             [i \in 1 .. Len(fields) |->
                                 IF fields[i].is_active THEN fields[i]
                                 ELSE LET t == format_2f(
                                          get_path(s.objs[o], property_paths[i]))
                                      IN  [fields[i] EXCEPT !.display_value = t,
                                                            !.value = t]]]
                 ELSE created
    IN  [s EXCEPT !.inspector = shown]

(***************************************************************************)
(* The frame loop (PygameEditor.run, handle_events, update).               *)
(***************************************************************************)
\* the body of the loop of handle_events for one event
handle_event(s, e, mouse_pos) ==
    LET k == key_events(s, e)
        a == add_button_handle_event(k, e)
        b == play_button_handle_event(a, e)
        h == HierarchyPanel_handle_event(b, e, mouse_pos)
        v == SceneView_handle_event(h, e, mouse_pos)
    IN  IF k.crashed THEN k ELSE InspectorPanel_handle_event(v, e, mouse_pos)

PygameEditor_update(s, mouse_pos, pressed, keys) ==
    LET b == [s EXCEPT !.buttons.add.hovered = collidepoint(add_button_rect, mouse_pos),
                       !.buttons.play.hovered = collidepoint(play_button_rect, mouse_pos)]
        h == update_items(b)
        p == [h EXCEPT !.view.is_playing = h.editor.is_playing]
        v == SceneView_update(p, mouse_pos, pressed)
        i == update_input_fields(v)
    IN  IF i.editor.is_playing THEN handle_play_input(i, keys) ELSE i

PygameEditor_init ==
    [objs |-> [i \in ObjIds |->
                 IF i = 1 THEN [GameObject_init EXCEPT !.position = V(0, 0)]
                 ELSE IF i = 2 THEN [GameObject_init EXCEPT !.position = V(100, -50)]
                 ELSE IF i = 3 THEN [GameObject_init EXCEPT !.position = V(-80, 60)]
                 ELSE GameObject_init],
     scene |-> [Scene_init EXCEPT !.game_objects = <<1, 2, 3>>],
     camera |-> EditorCamera_init,
     view |-> SceneView_init,
     editor |-> [is_playing |-> FALSE, object_counter |-> 1, running |-> TRUE],
     buttons |-> [add |-> Button_init, play |-> Button_init],
     items |-> << >>,
     inspector |-> InspectorPanel_init,
     crashed |-> FALSE]

\* the program after the frame in which Player was selected
PlayerShown == update_items(update_input_fields(select_object(PygameEditor_init, 1)))

(***************************************************************************)
(* The Vector2 instances by identity.  A name that can hold a Vector2 (a   *)
(* field of a transform, of the camera or of the scene view, or a local    *)
(* variable of SceneView.handle_event) is bound to a cell; an assignment   *)
(* binds a name to the cell of another name, Vector2(...) makes a new      *)
(* cell, and an assignment to .x or .y changes the cell in place.  The     *)
(* specification SpecRefs advances this view of the program next to the    *)
(* view by value; the other specifications leave it as constructed.        *)
(***************************************************************************)
CameraHolder == <<None, "camera.position">>
PanHolder == <<None, "view.last_mouse_pos">>
DragHolder == <<None, "view.drag_start_pos">>
LocalMouse == <<None, "local_mouse_pos">>
WorldPos == <<None, "world_pos">>

PositionOf(o) == <<o, "transform.position">>
ScaleOf(o) == <<o, "transform.scale">>

Locals == {LocalMouse, WorldPos}

Fields ==
    {PositionOf(o) : o \in ObjIds} \cup {ScaleOf(o) : o \in ObjIds}
    \cup {CameraHolder, PanHolder, DragHolder}

Holders == Fields \cup Locals

CellIds == 1 .. Cardinality(Holders)

NoVectors ==
    [at |-> [k \in Holders |-> None], cell |-> [c \in CellIds |-> V(0, 0)]]

\* the names in a fixed order
HolderSeq ==
    <<CameraHolder, PanHolder, DragHolder, LocalMouse, WorldPos>>
    \o [i \in 1 .. 2 * Cardinality(ObjIds) |->
           IF i % 2 = 1 THEN PositionOf((i + 1) \div 2) ELSE ScaleOf(i \div 2)]

Rank == [k \in Holders |-> CHOOSE r \in CellIds : HolderSeq[r] = k]

\* the instances are numbered by the first of the names bound to them: an
\* instance no name is bound to is gone, and which number an instance has
\* is of no consequence
Collected(h) ==
    LET first == [k \in Holders |->
                     IF h.at[k] = None THEN None
                     ELSE CHOOSE r \in CellIds :
                              /\ h.at[HolderSeq[r]] = h.at[k]
                              /\ \A q \in 1 .. (r - 1) : h.at[HolderSeq[q]] # h.at[k]]
    IN  [at |-> first,
         cell |-> [r \in CellIds |->
                      IF first[HolderSeq[r]] = r THEN h.cell[h.at[HolderSeq[r]]]
                      ELSE V(0, 0)]]

\* h is worked out once
Collect(h) == CHOOSE r \in {Collected(g) : g \in {h}} : TRUE

Bound(h, k, value) ==
    LET used == {h.at[j] : j \in Holders \ {k}}
        id == CHOOSE c \in CellIds : c \notin used
    IN  [h EXCEPT !.at[k] = id, !.cell[id] = value]

\* k = Vector2(value.x, value.y)
Vector2_new(h, k, value) == Collect(CHOOSE r \in {Bound(g, k, value) : g \in {h}} : TRUE)

\* k = j
Vector2_assign(h, k, j) == Collect([h EXCEPT !.at[k] = h.at[j]])

\* k.x = value.x; k.y = value.y
Vector2_set(h, k, value) == [h EXCEPT !.cell[h.at[k]] = value]

\* the names of ks go out of scope
Vector2_drop(h, ks) ==
    Collect([h EXCEPT !.at = [k \in Holders |-> IF k \in ks THEN None ELSE @[k]]])

Deref(h, k) == h.cell[h.at[k]]

\* the program s with every Vector2 field read through its cell
Through(h, s) ==
    [s EXCEPT !.objs = [o \in ObjIds |->
                          IF h.at[PositionOf(o)] # None /\ h.at[ScaleOf(o)] # None
                          THEN [s.objs[o] EXCEPT !.position = Deref(h, PositionOf(o)),
                                                 !.scale = Deref(h, ScaleOf(o))]
                          ELSE s.objs[o]],
              !.camera.position = Deref(h, CameraHolder),
              !.view.last_mouse_pos = Deref(h, PanHolder),
              !.view.drag_start_pos = Deref(h, DragHolder)]

\* mutant: every transform but the first takes the scale vector of the first
Transform_init_refs_sharing(h, o) ==
    LET p == Vector2_new(h, PositionOf(o), V(0, 0))
    IN  IF o = 1 THEN Vector2_new(p, ScaleOf(o), V(1, 1))
        ELSE Vector2_assign(p, ScaleOf(o), ScaleOf(1))

\* Transform.__init__ of the transform of object o
Transform_init_refs(h, o) ==
    Vector2_new(Vector2_new(h, PositionOf(o), V(0, 0)), ScaleOf(o), V(1, 1))

\* one object of create_sample_objects: GameObject(...), then its position
sample_object_refs(h, o) ==
    Vector2_new(Transform_init_refs(h, o), PositionOf(o),
                PygameEditor_init.objs[o].position)

create_sample_objects_refs(h) ==
    sample_object_refs(sample_object_refs(sample_object_refs(h, 1), 2), 3)

PygameEditor_add_object_refs(h, s) ==
    LET new_obj == SampleObjects + s.editor.object_counter
    IN  Vector2_new(Transform_init_refs(h, new_obj), PositionOf(new_obj), V(100, 100))

add_button_handle_event_refs(h, s, e) ==
    IF Button_fires(s.buttons.add, e) THEN PygameEditor_add_object_refs(h, s) ELSE h

SceneView_left_down_refs(h, s, local) ==
    LET r == Through(h, s)
        local_mouse_pos == V(local[1], local[2])
        world_pos == screen_to_world(r.camera, local_mouse_pos)
        w == Vector2_new(h, WorldPos, world_pos)
        clicked_object == get_object_at_position(r.objs, r.scene,
                                                 world_pos.x, world_pos.y)
    IN  IF is_click_on_zoom_text(local) THEN h
        ELSE IF is_click_on_camera_text(local)
        THEN Vector2_new(h, CameraHolder, V(0, 0))
        ELSE IF clicked_object # None /\ ~s.view.is_playing
        THEN Vector2_assign(w, DragHolder, WorldPos)
        ELSE w

SceneView_motion_refs(h, s, local) ==
    LET r == Through(h, s)
        local_mouse_pos == V(local[1], local[2])
        delta_x == RSub(local_mouse_pos.x, r.view.last_mouse_pos.x)
        delta_y == RSub(local_mouse_pos.y, r.view.last_mouse_pos.y)
        world_pos == screen_to_world(r.camera, local_mouse_pos)
    IN  IF s.view.is_panning
        THEN Vector2_assign(
                 Vector2_set(h, CameraHolder, pan(r.camera, delta_x, delta_y).position),
                 PanHolder, LocalMouse)
        ELSE IF /\ s.view.is_dragging_object
                /\ s.view.dragged_object # None
                /\ ~s.view.is_playing
        THEN Vector2_assign(Vector2_new(h, WorldPos, world_pos),
                            PositionOf(s.view.dragged_object), WorldPos)
        ELSE h

\* the local names of the call are gone when it returns
SceneView_handle_event_refs(h, s, e, mouse_pos) ==
    LET r == Through(h, s)
        local == local_of(mouse_pos)
        local_mouse_pos == V(local[1], local[2])
        m == Vector2_new(h, LocalMouse, local_mouse_pos)
        done == IF e.type = "MOUSEBUTTONDOWN" THEN
                    IF e.button = 1 THEN SceneView_left_down_refs(m, s, local)
                    ELSE IF e.button = 2 THEN Vector2_assign(m, PanHolder, LocalMouse)
                    ELSE m
                ELSE IF e.type = "MOUSEMOTION" THEN SceneView_motion_refs(m, s, local)
                ELSE IF e.type = "MOUSEWHEEL"
                THEN Vector2_set(m, CameraHolder,
                                 zoom_at_point(r.camera, local_mouse_pos,
                                               wheel_factor(e.y)).position)
                ELSE m
    IN  IF ~s.view.hovered THEN h ELSE Vector2_drop(done, Locals)

\* every write of the inspector is a setattr on the vector reached from the
\* selected object: on_value_change from confirm_value and from a dragged
\* label
InspectorPanel_handle_event_refs(h, s, e, mouse_pos) ==
    LET r == Through(h, s)
        t == InspectorPanel_handle_event(r, e, mouse_pos)
        o == s.scene.selected_object
    IN  IF o # None
        THEN Vector2_set(Vector2_set(h, PositionOf(o), t.objs[o].position),
                         ScaleOf(o), t.objs[o].scale)
        ELSE h

\* the body of the loop of handle_events for one event
handle_event_refs(h, s, e, mouse_pos) ==
    LET k == key_events(s, e)
        a == add_button_handle_event(k, e)
        ha == add_button_handle_event_refs(h, k, e)
        b == play_button_handle_event(a, e)
        p == HierarchyPanel_handle_event(b, e, mouse_pos)
        v == SceneView_handle_event(p, e, mouse_pos)
        hv == SceneView_handle_event_refs(ha, p, e, mouse_pos)
    IN  IF k.crashed THEN h ELSE InspectorPanel_handle_event_refs(hv, v, e, mouse_pos)

handle_play_input_refs(h, s, keys) ==
    LET r == Through(h, s)
        o == s.scene.selected_object
    IN  IF o # None
        THEN Vector2_set(h, PositionOf(o), handle_play_input(r, keys).objs[o].position)
        ELSE h

PygameEditor_update_refs(h, s, keys) ==
    IF s.editor.is_playing THEN handle_play_input_refs(h, s, keys) ELSE h

\* EditorCamera.__init__, SceneView.__init__, create_sample_objects
PygameEditor_init_refs ==
    create_sample_objects_refs(
        Vector2_new(Vector2_new(Vector2_new(NoVectors, CameraHolder, V(0, 0)),
                                PanHolder, V(0, 0)),
                    DragHolder, V(0, 0)))


Prog ==
    [objs |-> objs, scene |-> scene, camera |-> camera, view |-> view,
     editor |-> editor, buttons |-> buttons, items |-> items,
     inspector |-> inspector, crashed |-> crashed]

Becomes(s) ==
    /\ objs' = s.objs
    /\ scene' = s.scene
    /\ camera' = s.camera
    /\ view' = s.view
    /\ editor' = s.editor
    /\ buttons' = s.buttons
    /\ items' = s.items
    /\ inspector' = s.inspector
    /\ crashed' = s.crashed

Ev(type, key, button, y) ==
    [type |-> type, key |-> key, button |-> button, y |-> y,
     unicode |-> "", mod |-> {}]

\* a KEYDOWN of key with the character it types and the modifiers held
KeyEv(key, unicode, mod) ==
    [Ev("KEYDOWN", key, 0, 0) EXCEPT !.unicode = unicode, !.mod = mod]

LabelDragging(ins) ==
    \E i \in 1 .. Len(ins.drag_labels) : ins.drag_labels[i].is_dragging

Observed(op, args, value) == [op |-> op, args |-> args, value |-> value]

NoCall == Observed("none", << >>, 0)

MouseButtons == {1, 2}

Init ==
    /\ objs = PygameEditor_init.objs
    /\ scene = PygameEditor_init.scene
    /\ camera = PygameEditor_init.camera
    /\ view = PygameEditor_init.view
    /\ editor = PygameEditor_init.editor
    /\ buttons = PygameEditor_init.buttons
    /\ items = PygameEditor_init.items
    /\ inspector = PygameEditor_init.inspector
    /\ crashed = PygameEditor_init.crashed
    /\ mouse = [pos |-> <<0, 0>>, pressed |-> [b \in MouseButtons |-> FALSE]]
    /\ frame = [pc |-> "pump", moved |-> FALSE]
    /\ budget = 0
    /\ result = NoCall
    /\ vectors = PygameEditor_init_refs

\* pygame.event.get() pumps the host: the pointer position read by the
\* handlers of this frame is the one after every event of the batch, and a
\* batch in which the pointer moved holds a MOUSEMOTION
Pump(p) ==
    /\ frame.pc = "pump"
    /\ editor.running /\ ~crashed
    /\ mouse' = [mouse EXCEPT !.pos = p]
    /\ frame' = [pc |-> "events", moved |-> (p # mouse.pos)]
    /\ result' = NoCall
    /\ UNCHANGED <<objs, scene, camera, view, editor, buttons, items,
                   inspector, crashed, budget, vectors>>

\* the host only reports a press of a released button and a release of a
\* pressed one
Possible(e) ==
    /\ e.type = "MOUSEBUTTONDOWN" => ~mouse.pressed[e.button]
    /\ e.type = "MOUSEBUTTONUP" => mouse.pressed[e.button]

\* the step from the program to s, the program after the event e
HandledAs(e, s, max_edits) ==
    LET \* a wheel zoom, a pan, a drag move in the scene view, an added or a
        \* deleted object, a press on a drag label
        edit == \/ e.type \in {"MOUSEWHEEL", "MOUSEMOTION"} /\ s.camera # camera
                \/ e.type = "MOUSEMOTION" /\ s.objs # objs
                                          /\ ~LabelDragging(inspector)
                \/ s.scene.game_objects # scene.game_objects
                \/ LabelDragging(s.inspector) /\ ~LabelDragging(inspector)
        \* the texts a typed character made longer
        grown == {i \in 1 .. Len(inspector.input_fields) :
                     /\ e.type = "KEYDOWN" /\ e.unicode # ""
                     /\ Len(s.inspector.input_fields[i].value)
                           > Len(inspector.input_fields[i].value)}
    IN  /\ frame.pc = "events"
        /\ ~crashed
        /\ Possible(e)
        /\ edit => budget < max_edits
        /\ s.editor.object_counter <= MaxAdded + 1
        /\ \A i \in grown : Len(s.inspector.input_fields[i].value) <= MaxTyped
        /\ Becomes(s)
        /\ mouse' = [mouse EXCEPT !.pressed =
                        IF e.type = "MOUSEBUTTONDOWN" THEN [@ EXCEPT ![e.button] = TRUE]
                        ELSE IF e.type = "MOUSEBUTTONUP" THEN [@ EXCEPT ![e.button] = FALSE]
                        ELSE @]
        /\ frame' = [frame EXCEPT !.moved = @ /\ e.type # "MOUSEMOTION"]
        /\ budget' = IF edit THEN budget + 1 ELSE budget

\* one iteration of the loop of handle_events with at most max_edits edits,
\* the observation and the identities of the vectors left aside
HandledWithin(e, max_edits) ==
    \E s \in {handle_event(Prog, e, mouse.pos)} : HandledAs(e, s, max_edits)

\* one iteration of the loop of handle_events, the observation left aside
Handled(e) == HandledWithin(e, MaxEdits) /\ UNCHANGED vectors

\* one iteration of the loop of handle_events
HandleEvent(e) == Handled(e) /\ UNCHANGED result

\* one iteration of the loop of handle_events, observed: the event and the
\* texts of the active fields as the event found them
HandleObserved(e) ==
    /\ Handled(e)
    /\ result' = Observed("event", <<e.type, e.key>>,
                           [i \in 1 .. Len(inspector.input_fields) |->
                               IF inspector.input_fields[i].is_active
                               THEN inspector.input_fields[i].value
                               ELSE << >>])

\* the step from the program to s, the program after the update
UpdatedAs(s, max_edits) ==
    LET \* a play-mode move of the selected object
        edit == s.objs # objs
    IN  /\ frame.pc = "events"
        /\ ~crashed
        /\ ~frame.moved
        /\ edit => budget < max_edits
        /\ Becomes(s)
        /\ frame' = [frame EXCEPT !.pc = "pump"]
        /\ budget' = IF edit THEN budget + 1 ELSE budget
        \* which of the two polling checks of SceneView.update found its
        \* button released
        /\ result' = Observed("update", << >>,
                               [pan |-> view.is_panning /\ ~s.view.is_panning,
                                drag |-> view.is_dragging_object
                                         /\ ~s.view.is_dragging_object])
        /\ UNCHANGED mouse

\* PygameEditor.update, once the events of the frame are drained, with at
\* most max_edits edits, the identities of the vectors left aside
UpdatedWithin(keys, max_edits) ==
    \E s \in {PygameEditor_update(Prog, mouse.pos, mouse.pressed, keys)} :
        UpdatedAs(s, max_edits)

\* PygameEditor.update, once the events of the frame are drained
Update(keys) == UpdatedWithin(keys, MaxEdits) /\ UNCHANGED vectors

(***************************************************************************)
(* The editor driven by the commands that change the selection: the add    *)
(* and play buttons, the Delete and Space keys, hierarchy rows and clicks  *)
(* in the scene view.                                                      *)
(***************************************************************************)
SelectionPoints ==
    {<<160, 20>>,     \* add button
     <<200, 20>>,     \* play button
     <<100, 80>>,     \* first hierarchy row
     <<675, 295>>}    \* scene view, world (100, -50), the centre of Enemy

SelectionEvents ==
    {Ev("KEYDOWN", "DELETE", 0, 0), Ev("KEYDOWN", "SPACE", 0, 0),
     Ev("MOUSEMOTION", "", 0, 0),
     Ev("MOUSEBUTTONDOWN", "", 1, 0), Ev("MOUSEBUTTONUP", "", 1, 0)}

NextSelection ==
    \/ \E p \in SelectionPoints : Pump(p)
    \/ \E e \in SelectionEvents : HandleEvent(e)
    \/ Update({})

SpecSelection == Init /\ [][NextSelection]_vars

(***************************************************************************)
(* The editor in edit mode driven by pointer input over the scene view:    *)
(* clicks, drags, middle-button pans and the wheel.                        *)
(***************************************************************************)
ViewPoints ==
    {<<0, 0>>,        \* window corner, outside the scene view
     <<580, 345>>}    \* scene view, world (5, 0), inside Player

ViewEvents ==
    {Ev("MOUSEMOTION", "", 0, 0)}
    \cup {Ev("MOUSEBUTTONDOWN", "", b, 0) : b \in MouseButtons}
    \cup {Ev("MOUSEBUTTONUP", "", b, 0) : b \in MouseButtons}
    \cup {Ev("MOUSEWHEEL", "", 0, y) : y \in {-1, 1, 2}}

NextView ==
    \/ \E p \in ViewPoints : Pump(p)
    \/ \E e \in ViewEvents : HandleEvent(e)
    \/ Update({})

SpecView == Init /\ [][NextView]_vars

(***************************************************************************)
(* The editor with the camera at one of three zoom levels, driven by       *)
(* middle-button pans of up to MaxCamSteps pointer moves between three     *)
(* points, one of them outside the scene view.                             *)
(***************************************************************************)
\* the camera of a new editor; after one wheel tick up at the viewport
\* centre and a pan; after wheel ticks down at the viewport centre until
\* the zoom is clamped
PanCameras ==
    {EditorCamera_init,
     pan(zoom_at_point(EditorCamera_init, viewport_center, Q(11, 10)),
         I(-313), I(-283)),
     [position |-> V(0, 0), zoom |-> min_zoom]}

PanPoints ==
    {<<0, 0>>,        \* window corner, outside the scene view
     <<580, 345>>,    \* scene view, local (330, 305)
     <<600, 500>>}    \* scene view, local (350, 460)

PanEvents ==
    {Ev("MOUSEMOTION", "", 0, 0),
     Ev("MOUSEBUTTONDOWN", "", 2, 0), Ev("MOUSEBUTTONUP", "", 2, 0)}

InitPan ==
    /\ objs = PygameEditor_init.objs
    /\ scene = PygameEditor_init.scene
    /\ camera \in PanCameras
    /\ view = PygameEditor_init.view
    /\ editor = PygameEditor_init.editor
    /\ buttons = PygameEditor_init.buttons
    /\ items = PygameEditor_init.items
    /\ inspector = PygameEditor_init.inspector
    /\ crashed = PygameEditor_init.crashed
    /\ mouse = [pos |-> <<0, 0>>, pressed |-> [b \in MouseButtons |-> FALSE]]
    /\ frame = [pc |-> "pump", moved |-> FALSE]
    /\ budget = 0
    /\ result = NoCall
    /\ vectors = PygameEditor_init_refs

\* one iteration of the loop of handle_events, with up to MaxCamSteps moves
\* of the camera
HandlePanned(e) ==
    /\ HandledWithin(e, MaxCamSteps)
    /\ UNCHANGED <<vectors, result>>

NextPan ==
    \/ \E p \in PanPoints : Pump(p)
    \/ \E e \in PanEvents : HandlePanned(e)
    \/ Update({})

SpecPan == InitPan /\ [][NextPan]_vars

(***************************************************************************)
(* The editor entering play mode with the Space key, driven by left clicks *)
(* and drags in the scene view and by the arrow keys held in play mode.    *)
(***************************************************************************)
PlayPoints ==
    {<<0, 0>>,        \* window corner, outside the scene view
     <<580, 345>>,    \* scene view, world (5, 0), inside Player
     <<600, 500>>}    \* scene view, empty space

PlayEvents ==
    {Ev("KEYDOWN", "SPACE", 0, 0), Ev("MOUSEMOTION", "", 0, 0),
     Ev("MOUSEBUTTONDOWN", "", 1, 0), Ev("MOUSEBUTTONUP", "", 1, 0)}

NextPlay ==
    \/ \E p \in PlayPoints : Pump(p)
    \/ \E e \in PlayEvents : HandleEvent(e)
    \/ \E keys \in {{}, {"RIGHT", "DOWN"}} : Update(keys)

SpecPlay == Init /\ [][NextPlay]_vars

(***************************************************************************)
(* The editor with the camera zoomed in once and panned so that Player     *)
(* lies under the two overlay texts of the scene view, driven by left      *)
(* clicks on the texts and beside them.                                    *)
(***************************************************************************)
\* zoom 1.1 after one wheel tick at the viewport centre, then a pan by
\* (-313, -283) pixels: Player, at world (0, 0), is drawn at local (12, 22)
OverlayCamera == [position |-> Vector2(Q(3130, 11), Q(2830, 11)), zoom |-> Q(11, 10)]

OverlayPoints ==
    {<<0, 0>>,        \* window corner, outside the scene view
     <<262, 52>>,     \* local (12, 12): zoom text, over Player
     <<262, 72>>,     \* local (12, 32): camera text, over Player
     <<255, 62>>}     \* local (5, 22): beside the texts, over Player

OverlayEvents ==
    {Ev("MOUSEMOTION", "", 0, 0),
     Ev("MOUSEBUTTONDOWN", "", 1, 0), Ev("MOUSEBUTTONUP", "", 1, 0)}

InitOverlay ==
    /\ objs = PygameEditor_init.objs
    /\ scene = PygameEditor_init.scene
    /\ camera = OverlayCamera
    /\ view = PygameEditor_init.view
    /\ editor = PygameEditor_init.editor
    /\ buttons = PygameEditor_init.buttons
    /\ items = PygameEditor_init.items
    /\ inspector = PygameEditor_init.inspector
    /\ crashed = PygameEditor_init.crashed
    /\ mouse = [pos |-> <<0, 0>>, pressed |-> [b \in MouseButtons |-> FALSE]]
    /\ frame = [pc |-> "pump", moved |-> FALSE]
    /\ budget = 0
    /\ result = NoCall
    /\ vectors = PygameEditor_init_refs

NextOverlay ==
    \/ \E p \in OverlayPoints : Pump(p)
    \/ \E e \in OverlayEvents : HandleEvent(e)
    \/ Update({})

SpecOverlay == InitOverlay /\ [][NextOverlay]_vars

(***************************************************************************)
(* EditorCamera called directly: the camera starts at any position and     *)
(* zoom of CameraStates and its methods are applied to it.                 *)
(***************************************************************************)
CameraStates ==
    {[position |-> p, zoom |-> z] :
        p \in {V(0, 0), Vector2(I(40), Q(-25, 2))},
        z \in {min_zoom, I(1), Q(5, 2), max_zoom}}

ScreenPoints == {V(325, 305), V(0, 0), V(600, 100)}

WorldPoints == {V(0, 0), V(100, -50), Vector2(Q(-161, 2), I(60))}

ZoomFactors == {Q(11, 10), Q(9, 10), I(4), Q(1, 4)}

PanDeltas == {<<I(10), I(0)>>, <<I(-30), Q(41, 2)>>}

InitCamera ==
    /\ objs = PygameEditor_init.objs
    /\ scene = PygameEditor_init.scene
    /\ camera \in CameraStates
    /\ view = PygameEditor_init.view
    /\ editor = PygameEditor_init.editor
    /\ buttons = PygameEditor_init.buttons
    /\ items = PygameEditor_init.items
    /\ inspector = PygameEditor_init.inspector
    /\ crashed = PygameEditor_init.crashed
    /\ mouse = [pos |-> <<0, 0>>, pressed |-> [b \in MouseButtons |-> FALSE]]
    /\ frame = [pc |-> "pump", moved |-> FALSE]
    /\ budget = 0
    /\ result = NoCall
    /\ vectors = PygameEditor_init_refs

CameraOnly == UNCHANGED <<objs, scene, view, editor, buttons, items,
                          inspector, mouse, frame, crashed, vectors>>

\* the observation keeps the zoom and the world point under screen_point
\* from before the call
CallZoomAtPoint(screen_point, zoom_factor) ==
    /\ budget < MaxCamSteps
    /\ camera' = zoom_at_point(camera, screen_point, zoom_factor)
    /\ result' = Observed("zoom_at_point", <<screen_point, zoom_factor>>,
                           [zoom |-> camera.zoom,
                            world |-> screen_to_world(camera, screen_point)])
    /\ budget' = budget + 1
    /\ CameraOnly

CallPan(delta) ==
    /\ budget < MaxCamSteps
    /\ camera' = pan(camera, delta[1], delta[2])
    /\ result' = Observed("pan", delta, camera)
    /\ budget' = budget + 1
    /\ CameraOnly

CallResetView ==
    /\ camera' = reset_view(camera)
    /\ result' = Observed("reset_view", << >>, camera)
    /\ UNCHANGED budget
    /\ CameraOnly

CallResetZoom ==
    /\ camera' = reset_zoom(camera)
    /\ result' = Observed("reset_zoom", << >>, camera)
    /\ UNCHANGED budget
    /\ CameraOnly

CallWorldToScreen(world_pos) ==
    /\ result' = Observed("world_to_screen", <<world_pos>>,
                           world_to_screen(camera, world_pos))
    /\ UNCHANGED <<camera, budget>>
    /\ CameraOnly

CallScreenToWorld(screen_pos) ==
    /\ result' = Observed("screen_to_world", <<screen_pos>>,
                           screen_to_world(camera, screen_pos))
    /\ UNCHANGED <<camera, budget>>
    /\ CameraOnly

NextCamera ==
    \/ \E p \in ScreenPoints, f \in ZoomFactors : CallZoomAtPoint(p, f)
    \/ \E d \in PanDeltas : CallPan(d)
    \/ CallResetView
    \/ CallResetZoom
    \/ \E w \in WorldPoints : CallWorldToScreen(w)
    \/ \E p \in ScreenPoints : CallScreenToWorld(p)

SpecCamera == InitCamera /\ [][NextCamera]_vars

(***************************************************************************)
(* Scene.get_object_at_position called directly on scenes of up to         *)
(* MaxHitObjects objects with any position, scale and visibility of        *)
(* HitObjects.                                                             *)
(***************************************************************************)
HitObjects ==
    {[GameObject_init EXCEPT !.position = p, !.scale = sc, !.visible = v] :
        p \in {V(0, 0), V(20, 0)},
        sc \in {V(2, 1), V(1, 1), V(0, -1), Vector2(Q(-1, 2), I(0))},
        v \in BOOLEAN}

QueryPoints ==
    {V(0, 0), V(20, 0), V(32, 0), V(33, 0), V(0, 17), V(0, 16),
     Vector2(Q(319, 10), I(0)), Vector2(I(20), Q(4, 25)),
     Vector2(I(20), Q(17, 100)), V(10, 12)}

InitHit ==
    /\ \E n \in 0 .. MaxHitObjects :
         \E f \in [1 .. n -> HitObjects] :
            /\ objs = [i \in ObjIds |-> IF i <= n THEN f[i] ELSE GameObject_init]
            /\ scene = [Scene_init EXCEPT !.game_objects = [i \in 1 .. n |-> i]]
    /\ camera = PygameEditor_init.camera
    /\ view = PygameEditor_init.view
    /\ editor = PygameEditor_init.editor
    /\ buttons = PygameEditor_init.buttons
    /\ items = PygameEditor_init.items
    /\ inspector = PygameEditor_init.inspector
    /\ crashed = PygameEditor_init.crashed
    /\ mouse = [pos |-> <<0, 0>>, pressed |-> [b \in MouseButtons |-> FALSE]]
    /\ frame = [pc |-> "pump", moved |-> FALSE]
    /\ budget = 0
    /\ result = NoCall
    /\ vectors = PygameEditor_init_refs

CallGetObjectAtPosition(q) ==
    /\ result' = Observed("get_object_at_position", q,
                           get_object_at_position(objs, scene, q.x, q.y))
    /\ UNCHANGED <<objs, scene, camera, view, editor, buttons, items,
                   inspector, mouse, frame, crashed, budget, vectors>>

NextHit == \E q \in QueryPoints : CallGetObjectAtPosition(q)

SpecHit == InitHit /\ [][NextHit]_vars

(***************************************************************************)
(* The editor driven by input on the inspector: Player is selected from    *)
(* the hierarchy, the labels of position x and scale x are dragged and a   *)
(* number is typed into the field of scale x.                              *)
(***************************************************************************)
InspectorPoints ==
    {<<100, 80>>,     \* first hierarchy row
     <<1010, 180>>,   \* label of position x
     <<1010, 250>>,   \* label of scale x
     <<1040, 250>>,   \* field of scale x
     <<1110, 250>>,   \* inspector, right of the field: 100 right of the labels
     <<905, 250>>}    \* inspector, left edge: 105 left of the labels

InspectorEvents ==
    {Ev("MOUSEMOTION", "", 0, 0),
     Ev("MOUSEBUTTONDOWN", "", 1, 0), Ev("MOUSEBUTTONUP", "", 1, 0),
     KeyEv("0", "0", {}), KeyEv("RETURN", "", {})}

NextInspector ==
    \/ \E p \in InspectorPoints : Pump(p)
    \/ \E e \in InspectorEvents : HandleEvent(e)
    \/ Update({})

SpecInspector == Init /\ [][NextInspector]_vars

(***************************************************************************)
(* DragLabel.handle_event called directly with pointer moves: Player is    *)
(* selected with any of LabelValues in the bound field, and one label is   *)
(* pressed.                                                                *)
(***************************************************************************)
LabelValues == {I(1), I(0), Q(1, 2), I(-40)}

\* a point of the label at index i
label_point(i) == <<label_rect(i).x + 5, label_rect(i).y + 10>>

\* the pointer x of the moves, from the x of the press
LabelOffsets == {500, 100, 1, 0, -99, -100, -500}

\* the program after the frame in which Player was selected, with v in the
\* field bound to the label at index i, and the press on that label
Pressed(i, v) ==
    LET chosen == select_object(PygameEditor_init, 1)
        valued == [chosen EXCEPT !.objs[1] = set_path(@, property_paths[i], v)]
        shown == update_items(update_input_fields(valued))
    IN  DragLabel_handle_event(shown, i, Ev("MOUSEBUTTONDOWN", "", 1, 0),
                               label_point(i)).s

InitLabel ==
    /\ \E i \in 1 .. 5, v \in LabelValues :
          /\ objs = Pressed(i, v).objs
          /\ scene = Pressed(i, v).scene
          /\ inspector = Pressed(i, v).inspector
          /\ items = Pressed(i, v).items
          /\ mouse = [pos |-> label_point(i),
                      pressed |-> [b \in MouseButtons |-> b = 1]]
    /\ camera = PygameEditor_init.camera
    /\ view = PygameEditor_init.view
    /\ editor = PygameEditor_init.editor
    /\ buttons = PygameEditor_init.buttons
    /\ crashed = PygameEditor_init.crashed
    /\ frame = [pc |-> "events", moved |-> FALSE]
    /\ budget = 0
    /\ result = NoCall
    /\ vectors = PygameEditor_init_refs

\* InspectorPanel.handle_event for a MOUSEMOTION with the pointer d right of
\* the press; the observation keeps the label as it was pressed
CallDragLabelMove(d) ==
    LET i == CHOOSE j \in 1 .. 5 : inspector.drag_labels[j].is_dragging
        x == inspector.drag_labels[i].drag_start_x + d
        p == <<x, mouse.pos[2]>>
        s == InspectorPanel_handle_event(Prog, Ev("MOUSEMOTION", "", 0, 0), p)
    IN  /\ Becomes(s)
        /\ mouse' = [mouse EXCEPT !.pos = p]
        /\ result' = Observed("drag_label", <<i, x>>, inspector.drag_labels[i])
        /\ UNCHANGED <<frame, budget, vectors>>

NextLabel == \E d \in LabelOffsets : CallDragLabelMove(d)

SpecLabel == InitLabel /\ [][NextLabel]_vars

(***************************************************************************)
(* The editor with Player selected and its controls shown, driven by       *)
(* clicks on two text fields of the inspector, a typed digit, Enter and    *)
(* Escape; Escape also ends the main loop after the frame.                 *)
(***************************************************************************)
TextPoints ==
    {<<1040, 180>>,   \* field of position x
     <<1040, 250>>}   \* field of scale x

TextEvents ==
    {Ev("MOUSEMOTION", "", 0, 0),
     Ev("MOUSEBUTTONDOWN", "", 1, 0), Ev("MOUSEBUTTONUP", "", 1, 0),
     KeyEv("5", "5", {}), KeyEv("RETURN", "", {}), KeyEv("ESCAPE", "", {})}

InitText ==
    /\ objs = PlayerShown.objs
    /\ scene = PlayerShown.scene
    /\ inspector = PlayerShown.inspector
    /\ items = PlayerShown.items
    /\ camera = PygameEditor_init.camera
    /\ view = PygameEditor_init.view
    /\ editor = PygameEditor_init.editor
    /\ buttons = PygameEditor_init.buttons
    /\ crashed = PygameEditor_init.crashed
    /\ mouse = [pos |-> <<100, 80>>, pressed |-> [b \in MouseButtons |-> FALSE]]
    /\ frame = [pc |-> "pump", moved |-> FALSE]
    /\ budget = 0
    /\ result = NoCall
    /\ vectors = PygameEditor_init_refs

NextText ==
    \/ \E p \in TextPoints : Pump(p)
    \/ \E e \in TextEvents : HandleObserved(e)
    \/ Update({})

SpecText == InitText /\ [][NextText]_vars

(***************************************************************************)
(* The same editor driven by a typed character that is part of no number.  *)
(***************************************************************************)
JunkEvents ==
    {Ev("MOUSEMOTION", "", 0, 0),
     Ev("MOUSEBUTTONDOWN", "", 1, 0), Ev("MOUSEBUTTONUP", "", 1, 0),
     KeyEv("x", "x", {}), KeyEv("RETURN", "", {})}

NextJunk ==
    \/ \E p \in TextPoints : Pump(p)
    \/ \E e \in JunkEvents : HandleObserved(e)
    \/ Update({})

SpecJunk == InitText /\ [][NextJunk]_vars

(***************************************************************************)
(* The same editor driven by both typed characters, Enter and Escape: a    *)
(* field is left by a commit, by Escape or by a click, or kept for         *)
(* correction.                                                             *)
(***************************************************************************)
CorrectionEvents ==
    {Ev("MOUSEMOTION", "", 0, 0),
     Ev("MOUSEBUTTONDOWN", "", 1, 0), Ev("MOUSEBUTTONUP", "", 1, 0),
     KeyEv("x", "x", {}), KeyEv("5", "5", {}),
     KeyEv("RETURN", "", {}), KeyEv("ESCAPE", "", {})}

NextCorrection ==
    \/ \E p \in TextPoints : Pump(p)
    \/ \E e \in CorrectionEvents : HandleObserved(e)
    \/ Update({})

SpecCorrection == InitText /\ [][NextCorrection]_vars

(***************************************************************************)
(* The same editor driven by the editing keys of a text field: the cursor  *)
(* keys with and without Shift, Backspace, Delete, select-all, a typed     *)
(* character, Enter and Escape, as long as no object is changed.           *)
(***************************************************************************)
EditingPoints == {<<1040, 250>>}   \* field of scale x

EditingEvents ==
    {Ev("MOUSEMOTION", "", 0, 0),
     Ev("MOUSEBUTTONDOWN", "", 1, 0), Ev("MOUSEBUTTONUP", "", 1, 0),
     KeyEv("END", "", {}), KeyEv("HOME", "", {}),
     KeyEv("LEFT", "", {"SHIFT"}), KeyEv("RIGHT", "", {}),
     KeyEv("BACKSPACE", "", {}), KeyEv("DELETE", "", {}),
     KeyEv("a", "a", {"CTRL"}), KeyEv("x", "x", {}),
     KeyEv("RETURN", "", {}), KeyEv("ESCAPE", "", {})}

\* one iteration of the loop of handle_events, up to the first commit that
\* changes an object: a committed text is shown again with two decimals,
\* and without its point it is a number a hundred times larger
HandleEditing(e) == HandleEvent(e) /\ objs' = objs

NextEditing ==
    \/ \E p \in EditingPoints : Pump(p)
    \/ \E e \in EditingEvents : HandleEditing(e)
    \/ Update({})

SpecEditing == InitText /\ [][NextEditing]_vars

(***************************************************************************)
(* The editor with Enemy selected and its controls shown, driven by typing *)
(* into the field of scale x, Enter, and the Delete key, which removes the *)
(* selected object while its controls exist.                               *)
(***************************************************************************)
StalePoints == {<<1040, 250>>}   \* field of scale x

StaleEvents ==
    {Ev("MOUSEMOTION", "", 0, 0),
     Ev("MOUSEBUTTONDOWN", "", 1, 0), Ev("MOUSEBUTTONUP", "", 1, 0),
     KeyEv("5", "5", {}), KeyEv("RETURN", "", {}), KeyEv("DELETE", "", {})}

\* the program after the frame in which Enemy was selected
EnemyShown == update_items(update_input_fields(select_object(PygameEditor_init, 2)))

InitStale ==
    /\ objs = EnemyShown.objs
    /\ scene = EnemyShown.scene
    /\ inspector = EnemyShown.inspector
    /\ items = EnemyShown.items
    /\ camera = PygameEditor_init.camera
    /\ view = PygameEditor_init.view
    /\ editor = PygameEditor_init.editor
    /\ buttons = PygameEditor_init.buttons
    /\ crashed = PygameEditor_init.crashed
    /\ mouse = [pos |-> <<100, 105>>, pressed |-> [b \in MouseButtons |-> FALSE]]
    /\ frame = [pc |-> "pump", moved |-> FALSE]
    /\ budget = 0
    /\ result = NoCall
    /\ vectors = PygameEditor_init_refs

NextStale ==
    \/ \E p \in StalePoints : Pump(p)
    \/ \E e \in StaleEvents : HandleObserved(e)
    \/ Update({})

SpecStale == InitStale /\ [][NextStale]_vars

(***************************************************************************)
(* The same editor driven by input that selects Player while Enemy's       *)
(* controls exist: a click on the first hierarchy row, and Space, which    *)
(* enters play mode and selects the first object.                          *)
(***************************************************************************)
ReselectPoints ==
    {<<1040, 250>>,   \* field of scale x
     <<100, 80>>}     \* first hierarchy row

ReselectEvents ==
    {Ev("MOUSEMOTION", "", 0, 0),
     Ev("MOUSEBUTTONDOWN", "", 1, 0), Ev("MOUSEBUTTONUP", "", 1, 0),
     KeyEv("5", "5", {}), KeyEv("SPACE", " ", {})}

NextReselect ==
    \/ \E p \in ReselectPoints : Pump(p)
    \/ \E e \in ReselectEvents : HandleObserved(e)
    \/ Update({})

SpecReselect == InitStale /\ [][NextReselect]_vars

(***************************************************************************)
(* The binding of the controls called directly: DragLabel.get_current_value *)
(* and InspectorPanel.on_value_change with the paths of the controls and    *)
(* with paths whose lookup fails, while Player is selected, after the       *)
(* selection was cleared in the frame that still has Player's controls,     *)
(* and before anything was selected.                                        *)
(***************************************************************************)
\* paths on which getattr raises before the last part is reached
BrokenPaths == {"transform.velocity.x", "transform.rotation.x", "body.position.x"}

ReadPaths ==
    {property_paths[i] : i \in 1 .. 5} \cup BrokenPaths
    \cup {"transform.position.z", "transform.position", "visible", "name"}

WritePaths == {property_paths[i] : i \in 1 .. 5} \cup BrokenPaths

WriteValues == {I(5), Q(-3, 2)}

BindingStates == {PygameEditor_init, PlayerShown, select_object(PlayerShown, None)}

InitBinding ==
    /\ \E s \in BindingStates :
          /\ objs = s.objs
          /\ scene = s.scene
          /\ inspector = s.inspector
          /\ items = s.items
    /\ camera = PygameEditor_init.camera
    /\ view = PygameEditor_init.view
    /\ editor = PygameEditor_init.editor
    /\ buttons = PygameEditor_init.buttons
    /\ crashed = PygameEditor_init.crashed
    /\ mouse = [pos |-> <<0, 0>>, pressed |-> [b \in MouseButtons |-> FALSE]]
    /\ frame = [pc |-> "events", moved |-> FALSE]
    /\ budget = 0
    /\ result = NoCall
    /\ vectors = PygameEditor_init_refs

CallGetCurrentValue(path) ==
    /\ result' = Observed("get_current_value", <<path>>,
                           get_current_value(Prog, path))
    /\ UNCHANGED <<objs, scene, camera, view, editor, buttons, items,
                   inspector, mouse, frame, crashed, budget, vectors>>

\* the observation keeps the program as it was before the call
CallOnValueChange(path, value) ==
    /\ budget < MaxEdits
    /\ Becomes(on_value_change(Prog, path, value))
    /\ budget' = budget + 1
    /\ result' = Observed("on_value_change", <<path, value>>, Prog)
    /\ UNCHANGED <<mouse, frame, vectors>>

NextBinding ==
    \/ \E path \in ReadPaths : CallGetCurrentValue(path)
    \/ \E path \in WritePaths, value \in WriteValues : CallOnValueChange(path, value)

SpecBinding == InitBinding /\ [][NextBinding]_vars

(***************************************************************************)
(* The editor with its Vector2 instances followed by identity: objects are *)
(* dragged over one another in the scene view, the camera is zoomed with   *)
(* the wheel, the label of position x is dragged and the selected object   *)
(* is moved in play mode.                                                  *)
(***************************************************************************)
RefPoints ==
    {<<580, 345>>,    \* scene view, world (5, 0), inside Player
     <<675, 295>>,    \* scene view, world (100, -50), the centre of Enemy
     <<1010, 180>>}   \* label of position x

RefEvents ==
    {Ev("MOUSEMOTION", "", 0, 0), Ev("MOUSEWHEEL", "", 0, 1),
     Ev("MOUSEBUTTONDOWN", "", 1, 0), Ev("MOUSEBUTTONUP", "", 1, 0),
     Ev("KEYDOWN", "SPACE", 0, 0)}

\* one iteration of the loop of handle_events, the vectors followed
HandleTracked(e) ==
    /\ HandledWithin(e, MaxTracked)
    /\ vectors' = handle_event_refs(vectors, Prog, e, mouse.pos)
    /\ UNCHANGED result

\* PygameEditor.update, the vectors followed
UpdateTracked(keys) ==
    /\ UpdatedWithin(keys, MaxTracked)
    /\ vectors' = PygameEditor_update_refs(vectors, Prog, keys)

NextRefs ==
    \/ \E p \in RefPoints : Pump(p)
    \/ \E e \in RefEvents : HandleTracked(e)
    \/ \E keys \in {{}, {"RIGHT"}} : UpdateTracked(keys)

SpecRefs == Init /\ [][NextRefs]_vars

(***************************************************************************)
(* Properties.                                                             *)
(***************************************************************************)
\* C1: after any sequence of select_object calls an object has selected = true
\* exactly when it is scene.selected_object, so at most one object is selected
\* and it is the one passed last
SelectionExclusive ==
    \A o \in ObjIds : objs[o].selected <=> (scene.selected_object = o)

\* play mode was entered, which selected the first object, and then a click
\* moved the selection to the second object
SelectionMoved ==
    /\ editor.is_playing /\ budget = 0
    /\ scene.selected_object = 2

\* C2: scene.selected_object is None or an object contained in
\* scene.game_objects
NoDanglingSelection ==
    \/ scene.selected_object = None
    \/ InList(scene.game_objects, scene.selected_object)

\* C3: after any sequence of zoom_at_point, pan, reset_zoom and reset_view
\* calls the zoom lies in [0.1, 10.0]
ZoomInRange == RLe(min_zoom, camera.zoom) /\ RLe(camera.zoom, max_zoom)

\* a second zoom-in whose product would pass 10.0 left the zoom at 10.0
ZoomInClamped ==
    /\ result.op = "zoom_at_point" /\ budget >= 2
    /\ RLt(max_zoom, RMul(result.value.zoom, result.args[2]))
    /\ camera.zoom = max_zoom

\* C4: after zoom_at_point(p, factor), screen_to_world(p) is what it was
\* immediately before the call, also when the zoom is clamped
ZoomAnchored ==
    result.op = "zoom_at_point" =>
        screen_to_world(camera, result.args[1]) = result.value.world

\* a zoom-out at a point off the viewport centre that was clamped at 0.1
\* and moved the camera
ZoomOutClampedOffCentre ==
    /\ result.op = "zoom_at_point"
    /\ result.args[1] # viewport_center
    /\ RLt(RMul(result.value.zoom, result.args[2]), min_zoom)
    /\ result.value.zoom # min_zoom
    /\ camera.zoom = min_zoom

\* C5: screen_to_world(world_to_screen(world)) = world and
\* world_to_screen(screen_to_world(screen)) = screen for every camera state
RoundTrip ==
    /\ \A w \in WorldPoints :
          screen_to_world(camera, world_to_screen(camera, w)) = w
    /\ \A p \in ScreenPoints :
          world_to_screen(camera, screen_to_world(camera, p)) = p
    /\ result.op = "world_to_screen" =>
          screen_to_world(camera, result.value) = result.args[1]
    /\ result.op = "screen_to_world" =>
          world_to_screen(camera, result.value) = result.args[1]

\* a world point away from the origin was converted by a zoomed camera that
\* is not at the origin
ConvertedByMovedCamera ==
    /\ result.op = "world_to_screen"
    /\ result.args[1] # V(0, 0)
    /\ camera.zoom # I(1)
    /\ camera.position # V(0, 0)
    /\ result.value # result.args[1]

\* the ellipse of the claim: semi-axes 16 * max(0.01, |scale|), boundary
\* included; a point outside the bounding box is outside the ellipse
SemiAxis(scale_component) ==
    RMul(I(16), RMax(Q(1, 100), RAbs(scale_component)))

Square(r) == RMul(r, r)

InEllipse(o, q) ==
    LET a == SemiAxis(o.scale.x)
        b == SemiAxis(o.scale.y)
        dx == RSub(q.x, o.position.x)
        dy == RSub(q.y, o.position.y)
    IN  /\ RLe(RAbs(dx), a)
        /\ RLe(RAbs(dy), b)
        /\ RLe(RAdd(Square(RDiv(dx, a)), Square(RDiv(dy, b))), I(1))

\* indices into game_objects of the visible objects whose footprint holds q
Covering(q) ==
    {i \in 1 .. Len(scene.game_objects) :
        /\ objs[scene.game_objects[i]].visible
        /\ InEllipse(objs[scene.game_objects[i]], q)}

MaxOf(S) == CHOOSE m \in S : \A n \in S : n <= m

\* C6: get_object_at_position returns the object of greatest insertion index
\* among the visible objects whose footprint holds the point, and None
\* exactly when there is none
TopmostHit ==
    result.op = "get_object_at_position" =>
        IF Covering(result.args) = {}
        THEN result.value = None
        ELSE result.value = scene.game_objects[MaxOf(Covering(result.args))]

\* two visible objects overlap at the point and the later one was returned
OverlapLaterWins ==
    /\ result.op = "get_object_at_position"
    /\ Cardinality(Covering(result.args)) = 2
    /\ result.value = scene.game_objects[2]

\* C7: get_object_at_position never returns an invisible object, and an
\* invisible object on top of a visible one does not occlude it
InvisibleSkipped ==
    result.op = "get_object_at_position" =>
        /\ result.value # None => objs[result.value].visible
        /\ \A i \in 1 .. Len(scene.game_objects) :
              LET o == objs[scene.game_objects[i]]
              IN  (o.visible /\ InEllipse(o, result.args)) => result.value # None

\* the point is inside an invisible object that lies on top of a visible one,
\* and the visible one was returned
InvisibleOnTop ==
    /\ result.op = "get_object_at_position"
    /\ Len(scene.game_objects) = 2
    /\ ~objs[2].visible /\ InEllipse(objs[2], result.args)
    /\ result.value = 1

\* C8: a point is hit iff it lies in the ellipse with semi-axes
\* 16 * max(0.01, |scale|) around the position, boundary included; for an
\* object at (0, 0) with scale (2, 1), (31.9, 0) hits and (33, 0) and (0, 17)
\* do not
HitRegionIsEllipse ==
    result.op = "get_object_at_position" =>
        /\ result.value # None <=> Covering(result.args) # {}
        /\ ( /\ scene.game_objects = <<1>>
             /\ objs[1] = [GameObject_init EXCEPT !.scale = V(2, 1)] ) =>
               /\ result.args = Vector2(Q(319, 10), I(0)) => result.value = 1
               /\ result.args = V(32, 0) => result.value = 1
               /\ result.args = V(33, 0) => result.value = None
               /\ result.args = V(0, 17) => result.value = None
               /\ result.args = V(0, 16) => result.value = 1

\* the object of the example was hit at (31.9, 0)
ExampleHit ==
    /\ result.op = "get_object_at_position"
    /\ scene.game_objects = <<1>>
    /\ objs[1] = [GameObject_init EXCEPT !.scale = V(2, 1)]
    /\ result.args = Vector2(Q(319, 10), I(0))
    /\ result.value = 1

\* C9: for every scale, zero and negative components included, both
\* semi-axes of the hit test are at least 0.16, and a visible object is hit at
\* its own position
SemiAxesPositive ==
    /\ \A i \in 1 .. Len(scene.game_objects) :
          LET o == objs[scene.game_objects[i]]
          IN  RLe(Q(16, 100), hit_width(o)) /\ RLe(Q(16, 100), hit_height(o))
    /\ \A i \in 1 .. Len(scene.game_objects) :
          LET o == objs[scene.game_objects[i]]
          IN  o.visible =>
                get_object_at_position(objs, scene, o.position.x, o.position.y)
                    # None

\* an object with scale (0, -1) was hit
DegenerateScaleHit ==
    /\ result.op = "get_object_at_position"
    /\ result.value # None
    /\ objs[result.value].scale = V(0, -1)

\* C10: after every SceneView.update tick, panning is active only if the
\* middle button is pressed and dragging only if the left button is pressed
PollingReconciles ==
    frame.pc = "pump" =>
        /\ view.is_panning => mouse.pressed[2]
        /\ view.is_dragging_object => mouse.pressed[1]

\* an update tick found both buttons released while the view was still
\* panning and dragging, and ended both
PollingEndedPanAndDrag ==
    /\ frame.pc = "pump"
    /\ result.op = "update"
    /\ result.value.pan /\ result.value.drag
    /\ ~view.is_panning /\ ~view.is_dragging_object

\* the local pointer position of the scene view as a vector, and the world
\* point under it
LocalPointer == V(local_of(mouse.pos)[1], local_of(mouse.pos)[2])

WorldUnderPointer == screen_to_world(camera, LocalPointer)

OnOverlayText ==
    \/ is_click_on_zoom_text(local_of(mouse.pos))
    \/ is_click_on_camera_text(local_of(mouse.pos))

\* C11: in no reachable state are is_panning and is_dragging_object both
\* true
PanningExcludesDragging == ~(view.is_panning /\ view.is_dragging_object)

NoDragInPlayMode ==
    [][editor.is_playing =>
          /\ ~view.is_dragging_object => ~view'.is_dragging_object
          /\ (frame.pc = "events" /\ frame'.pc = "events") =>
                \A o \in ObjIds : objs'[o].position = objs[o].position]_vars

\* C14: a pointer move handled by the hovered scene view while it drags an
\* object leaves the object at screen_to_world of the local pointer position
DragSnapsToPointer ==
    [][(/\ HandleEvent(Ev("MOUSEMOTION", "", 0, 0))
        /\ view.hovered
        /\ view.is_dragging_object
        /\ view.dragged_object # None)
       => objs'[view.dragged_object].position =
             screen_to_world(camera', LocalPointer)]_vars

\* C15: pan(dx, dy) moves the position by (-dx / zoom, -dy / zoom) and keeps
\* the zoom, so every world point moves by (dx, dy) on the screen, and
\* pan(-dx, -dy) afterwards restores the position
PanExact ==
    result.op = "pan" =>
        LET before == result.value
            dx == result.args[1]
            dy == result.args[2]
        IN  /\ camera.position.x = RSub(before.position.x, RDiv(dx, before.zoom))
            /\ camera.position.y = RSub(before.position.y, RDiv(dy, before.zoom))
            /\ camera.zoom = before.zoom
            /\ \A w \in WorldPoints :
                  /\ world_to_screen(camera, w).x
                        = RAdd(world_to_screen(before, w).x, dx)
                  /\ world_to_screen(camera, w).y
                        = RAdd(world_to_screen(before, w).y, dy)
            /\ pan(camera, RNeg(dx), RNeg(dy)) = before

\* a camera zoomed to 2.5 was panned by (-30, 20.5) pixels
PannedWhileZoomed ==
    /\ result.op = "pan"
    /\ result.args = <<I(-30), Q(41, 2)>>
    /\ camera.zoom = Q(5, 2)
    /\ camera.position # result.value.position

\* C16: a wheel event handled by the hovered scene view is one
\* zoom_at_point at the local pointer position, by 1.1 for y > 0 and by 0.9
\* otherwise whatever the size of y, and changes neither the selection nor
\* the drag and pan state
WheelZoomsOneStep ==
    [][\A y \in {-1, 1, 2} :
          (HandleEvent(Ev("MOUSEWHEEL", "", 0, y)) /\ view.hovered) =>
             /\ camera' = zoom_at_point(camera, LocalPointer,
                                        IF y > 0 THEN Q(11, 10) ELSE Q(9, 10))
             /\ scene' = scene
             /\ objs' = objs
             /\ view' = view]_vars

\* the wheel was turned up away from the viewport centre while an object
\* was being dragged
WheelDuringDrag ==
    /\ camera.zoom = Q(11, 10)
    /\ camera.position # V(0, 0)
    /\ view.is_dragging_object
    /\ scene.selected_object = view.dragged_object

\* C17: a left click on the zoom text sets the zoom to 1.0 and keeps the
\* position, a left click on the camera text sets the position to (0, 0) and
\* the zoom to 1.0, and neither changes the selection, a selected flag or
\* the drag state
OverlayClickResets ==
    [][(HandleEvent(Ev("MOUSEBUTTONDOWN", "", 1, 0)) /\ view.hovered) =>
          /\ is_click_on_zoom_text(local_of(mouse.pos)) =>
                /\ camera'.zoom = I(1)
                /\ camera'.position = camera.position
          /\ (/\ ~is_click_on_zoom_text(local_of(mouse.pos))
              /\ is_click_on_camera_text(local_of(mouse.pos))) =>
                /\ camera'.zoom = I(1)
                /\ camera'.position = V(0, 0)
          /\ OnOverlayText =>
                /\ scene' = scene
                /\ objs' = objs
                /\ view'.is_dragging_object = view.is_dragging_object
                /\ view'.dragged_object = view.dragged_object]_vars

\* the zoom text was clicked where Player lay under the pointer: the zoom
\* is reset, the position kept and nothing is selected or dragged
ZoomTextClickedOverPlayer ==
    /\ mouse.pos = <<262, 52>> /\ mouse.pressed[1]
    /\ camera = reset_zoom(OverlayCamera)
    /\ camera.position # V(0, 0)
    /\ LET w == screen_to_world(OverlayCamera, LocalPointer)
       IN  get_object_at_position(objs, scene, w.x, w.y) = 1
    /\ scene.selected_object = None
    /\ ~view.is_dragging_object

\* the label that is being dragged, 0 if there is none
DraggedLabel ==
    IF LabelDragging(inspector)
    THEN CHOOSE i \in 1 .. Len(inspector.drag_labels) :
            inspector.drag_labels[i].is_dragging
    ELSE 0

\* captured_value + (x - start_x) * step for the label l at index i, held
\* at the floor of 0.01 for a path that contains "scale"
Displaced(l, i, x) ==
    LET linear == RAdd(l.drag_start_value,
                       RMul(I(x - l.drag_start_x),
                            IF i <= 2 THEN I(1) ELSE IF i = 3 THEN I(2)
                            ELSE Q(1, 100)))
    IN  IF i >= 4 /\ RLt(linear, Q(1, 100)) THEN Q(1, 100) ELSE linear

ScaleLabelFloor ==
    result.op = "drag_label" =>
        LET i == result.args[1]
            x == result.args[2]
            l == result.value
            written == get_path(objs[scene.selected_object], property_paths[i])
            linear == RAdd(l.drag_start_value,
                           RMul(I(x - l.drag_start_x),
                                IF i <= 2 THEN I(1) ELSE IF i = 3 THEN I(2)
                                ELSE Q(1, 100)))
        IN  /\ i \in {4, 5} => /\ RLe(Q(1, 100), written)
                               /\ written = RMax(Q(1, 100), linear)
            /\ (i \in {4, 5} /\ l.drag_start_value = I(1)) =>
                  /\ x - l.drag_start_x = 500 => written = I(6)
                  /\ x - l.drag_start_x = -500 => written = Q(1, 100)
            /\ i \in {1, 2, 3} => written = linear

\* the label of scale x, pressed at value 1.0, was dragged 500 to the left
\* and wrote 0.01
ScaleDraggedToFloor ==
    /\ result.op = "drag_label"
    /\ result.args[1] = 4
    /\ result.value.drag_start_value = I(1)
    /\ result.args[2] - result.value.drag_start_x = -500
    /\ objs[1].scale.x = Q(1, 100)

\* C20: the scale components of every object of the scene are at least 0.01
ScaleFloorKept ==
    \A i \in 1 .. Len(scene.game_objects) :
        LET o == objs[scene.game_objects[i]]
        IN  RLe(Q(1, 100), o.scale.x) /\ RLe(Q(1, 100), o.scale.y)

FirstActive(ins) ==
    IF \E i \in 1 .. Len(ins.input_fields) : ins.input_fields[i].is_active
    THEN CHOOSE i \in 1 .. Len(ins.input_fields) :
            /\ ins.input_fields[i].is_active
            /\ \A j \in 1 .. i - 1 : ~ins.input_fields[j].is_active
    ELSE 0

\* every field of every object but the one at path of object o is as before
OnlyWritten(o, path) ==
    \A q \in ObjIds :
        /\ objs'[q].selected = objs[q].selected
        /\ objs'[q].visible = objs[q].visible
        /\ \A i \in 1 .. 5 :
              (q # o \/ property_paths[i] # path) =>
                 get_path(objs'[q], property_paths[i])
                    = get_path(objs[q], property_paths[i])

\* C23: Enter in an active field whose text is a number v leaves v in the
\* bound field of the object selected now, the field inactive with an empty
\* selection, and every other property of every object as it was
EnterCommits ==
    [][(/\ HandleObserved(KeyEv("RETURN", "", {}))
        /\ FirstActive(inspector) # 0
        /\ parse_float(inspector.input_fields[FirstActive(inspector)].value).ok)
       => LET i == FirstActive(inspector)
              v == parse_float(inspector.input_fields[i].value).value
              o == scene.selected_object
              f == inspector'.input_fields[i]
          IN  /\ o # None => get_path(objs'[o], property_paths[i]) = v
              /\ OnlyWritten(o, property_paths[i])
              /\ ~f.is_active
              /\ f.selection_start = 0 /\ f.selection_end = 0
              /\ scene' = scene]_vars

\* Enter was pressed on the text "5" typed into the field of scale x:
\* Player's scale x is 5 and the field is inactive
EnterCommittedFive ==
    /\ result.op = "event" /\ result.args = <<"KEYDOWN", "RETURN">>
    /\ result.value[4] = <<"5">>
    /\ objs[1].scale.x = I(5)
    /\ objs[1].position.x = I(0)
    /\ ~inspector.input_fields[4].is_active

\* C24: Enter in an active field whose text is no number leaves the text
\* at the last display text and writes to no object, and the main loop
\* goes on
EnterOnJunkReverts ==
    [][(/\ HandleObserved(KeyEv("RETURN", "", {}))
        /\ FirstActive(inspector) # 0
        /\ ~parse_float(inspector.input_fields[FirstActive(inspector)].value).ok)
       => LET i == FirstActive(inspector)
          IN  /\ inspector'.input_fields[i].value
                    = inspector.input_fields[i].display_value
              /\ inspector'.input_fields[i].display_value
                    = inspector.input_fields[i].display_value
              /\ objs' = objs
              /\ ~crashed' /\ editor'.running = editor.running]_vars

\* Enter was pressed on the text "x" and the field of scale x shows 1.00
\* again
EnterRejectedJunk ==
    /\ result.op = "event" /\ result.args = <<"KEYDOWN", "RETURN">>
    /\ result.value[4] = <<"x">>
    /\ inspector.input_fields[4].value = <<"1", ".", "0", "0">>
    /\ objs[1].scale.x = I(1)

\* C25: Escape in an active field leaves the text at the last display
\* text and the field inactive, and writes to no object
EscapeReverts ==
    [][(/\ HandleObserved(KeyEv("ESCAPE", "", {}))
        /\ FirstActive(inspector) # 0)
       => LET i == FirstActive(inspector)
          IN  /\ inspector'.input_fields[i].value
                    = inspector.input_fields[i].display_value
              /\ inspector'.input_fields[i].display_value
                    = inspector.input_fields[i].display_value
              /\ ~inspector'.input_fields[i].is_active
              /\ objs' = objs]_vars

\* Escape was pressed on the text "5" typed into the field of scale x: the
\* field shows 1.00, is inactive and Player's scale x is 1
EscapeDroppedFive ==
    /\ result.op = "event" /\ result.args = <<"KEYDOWN", "ESCAPE">>
    /\ result.value[4] = <<"5">>
    /\ inspector.input_fields[4].value = <<"1", ".", "0", "0">>
    /\ ~inspector.input_fields[4].is_active
    /\ objs[1].scale.x = I(1)

\* C26: a mouse button that goes down with the pointer outside an active
\* field leaves that field inactive and writes to no object
ClickOutsideDeactivates ==
    [][(\E b \in MouseButtons : HandleObserved(Ev("MOUSEBUTTONDOWN", "", b, 0)))
       => /\ \A i \in 1 .. Len(inspector.input_fields) :
                (/\ inspector.input_fields[i].is_active
                 /\ ~collidepoint(field_rect(i), mouse.pos))
                => ~inspector'.input_fields[i].is_active
          /\ objs' = objs]_vars

\* C27: a control of the inspector changes state or writes while handling
\* an event only if the object it was made for is the one selected when
\* the inspector is given the event
NoStaleControlActs ==
    [][(frame.pc = "events" /\ frame'.pc = "events" /\ inspector' # inspector)
       => inspector.current_object = scene'.selected_object]_vars

\* position, rotation and scale of an object
TransformOf(obj) == <<obj.position, obj.rotation, obj.scale>>

UpdateShowsNewSelection ==
    [][(/\ frame.pc = "events" /\ frame'.pc = "pump"
        /\ scene.selected_object # None
        /\ inspector.current_object # scene.selected_object)
       => /\ inspector'.current_object = scene.selected_object
          /\ Len(inspector'.input_fields) = 5
          /\ \A i \in 1 .. 5 :
                LET f == inspector'.input_fields[i]
                    shown == format_2f(get_path(objs[scene.selected_object],
                                                property_paths[i]))
                IN  /\ ~f.is_active
                    /\ f.value = shown
                    /\ f.display_value = shown]_vars

\* play mode was entered with Enemy's controls shown, which selected
\* Player, and after the update the fields show Player's position (0, 0)
PlayerShownAfterEnemy ==
    /\ result.op = "update"
    /\ editor.is_playing
    /\ scene.selected_object = 1
    /\ inspector.current_object = 1
    /\ inspector.input_fields[1].value = <<"0", ".", "0", "0">>
    /\ inspector.input_fields[2].value = <<"0", ".", "0", "0">>
    /\ \A i \in 1 .. 5 : ~inspector.input_fields[i].is_active

FailedEnterStaysActive ==
    [][/\ (/\ HandleObserved(KeyEv("RETURN", "", {}))
           /\ FirstActive(inspector) # 0
           /\ ~parse_float(inspector.input_fields[FirstActive(inspector)].value).ok)
          => /\ Len(inspector'.input_fields) = Len(inspector.input_fields)
             /\ inspector'.input_fields[FirstActive(inspector)].is_active
       /\ \A i \in 1 .. Len(inspector.input_fields) :
             (/\ inspector.input_fields[i].is_active
              /\ i <= Len(inspector'.input_fields)
              /\ ~inspector'.input_fields[i].is_active)
             => /\ frame.pc = "events" /\ result'.op = "event"
                /\ \/ /\ result'.args[1] = "MOUSEBUTTONDOWN"
                       /\ ~collidepoint(field_rect(i), mouse.pos)
                   \/ /\ result'.args = <<"KEYDOWN", "RETURN">>
                       /\ parse_float(inspector.input_fields[i].value).ok
                   \/ result'.args = <<"KEYDOWN", "ESCAPE">>]_vars

\* Enter was pressed on the text "x" in the field of scale x and the field
\* is still active
StillActiveAfterJunk ==
    /\ result.op = "event" /\ result.args = <<"KEYDOWN", "RETURN">>
    /\ result.value[4] = <<"x">>
    /\ inspector.input_fields[4].is_active
    /\ inspector.input_fields[4].cursor_pos = 4

\* C32: zoom_at_point called with the zoom at 10.0 and a factor above 1,
\* or with the zoom at 0.1 and a factor below 1, leaves the zoom and the
\* position of the camera as they were
ZoomAtBoundaryKeepsCamera ==
    [][\A p \in ScreenPoints, f \in ZoomFactors :
          (/\ CallZoomAtPoint(p, f)
           /\ \/ camera.zoom = max_zoom /\ RLt(I(1), f)
              \/ camera.zoom = min_zoom /\ RLt(f, I(1)))
          => camera' = camera]_vars

\* a zoom-in by 4 at the corner of the viewport was called on a camera at
\* zoom 10.0 that had been moved from the origin
ZoomedInAtMaximum ==
    /\ result.op = "zoom_at_point"
    /\ result.args = <<V(0, 0), I(4)>>
    /\ result.value.zoom = max_zoom
    /\ camera.zoom = max_zoom
    /\ camera.position # V(0, 0)

\* C33: a middle-button-down handled by the hovered scene view starts a pan
\* and records the local pointer position; a pointer move handled while
\* panning leaves screen_to_world of the local pointer position equal to
\* screen_to_world of the recorded position before the move, keeps the
\* zoom, and records the local pointer position for the next move
PanKeepsWorldUnderPointer ==
    [][/\ (HandlePanned(Ev("MOUSEBUTTONDOWN", "", 2, 0)) /\ view.hovered)
          => /\ view'.is_panning
             /\ view'.last_mouse_pos = LocalPointer
             /\ camera' = camera
       /\ (/\ HandlePanned(Ev("MOUSEMOTION", "", 0, 0))
           /\ view.hovered /\ view.is_panning)
          => /\ screen_to_world(camera', LocalPointer)
                   = screen_to_world(camera, view.last_mouse_pos)
             /\ camera'.zoom = camera.zoom
             /\ view'.last_mouse_pos = LocalPointer]_vars

\* a camera at zoom 0.1 was panned by two pointer moves, the second one to
\* local (350, 460)
PannedTwiceZoomedOut ==
    /\ view.is_panning
    /\ budget = 2
    /\ camera.zoom = min_zoom
    /\ mouse.pos = <<600, 500>>
    /\ view.last_mouse_pos = V(350, 460)
    /\ frame.pc = "events" /\ ~frame.moved

\* C34: in every reachable state is_dragging_object is true exactly when
\* dragged_object is an object
DragFlagMatchesObject ==
    view.is_dragging_object <=> (view.dragged_object # None)

\* an update tick found the left button released while an object was
\* dragged, and left the view with neither the flag nor the object
DragEndedByPolling ==
    /\ frame.pc = "pump"
    /\ result.op = "update"
    /\ result.value.drag /\ ~result.value.pan
    /\ ~view.is_dragging_object
    /\ view.dragged_object = None
    /\ scene.selected_object = 1

\* C35: whenever the scene view holds a dragged object, the object is in
\* scene.game_objects and is scene.selected_object
DraggedIsSelectedMember ==
    view.dragged_object # None =>
        /\ InList(scene.game_objects, view.dragged_object)
        /\ scene.selected_object = view.dragged_object

\* C36: in every reachable state at most one text field of the inspector
\* is active
AtMostOneActiveField ==
    \A i, j \in 1 .. Len(inspector.input_fields) :
        (inspector.input_fields[i].is_active /\ inspector.input_fields[j].is_active)
        => i = j

\* C37: in every reachable state the cursor and both ends of the selection
\* of an active text field lie between 0 and the length of its text
IndicesWithinText ==
    \A i \in 1 .. Len(inspector.input_fields) :
        LET f == inspector.input_fields[i]
        IN  f.is_active =>
               /\ f.cursor_pos \in 0 .. Len(f.value)
               /\ f.selection_start \in 0 .. Len(f.value)
               /\ f.selection_end \in 0 .. Len(f.value)

\* C38: a Delete key press handled while a text field of the inspector is
\* active changes neither the objects of the scene nor the selection
DeleteKeyOnlyEditsText ==
    [][(/\ HandleObserved(KeyEv("DELETE", "", {}))
        /\ FirstActive(inspector) # 0)
       => /\ scene'.game_objects = scene.game_objects
          /\ scene'.selected_object = scene.selected_object]_vars

====
